---- MODULE Spec2Model ----
(***************************************************************************)
(* docpeak: the dictionary lookup layer (DictionaryService with its        *)
(* bounded, expiring, persisted cache), the useDictionary hook that shows  *)
(* its results, the PDFViewer effect that drives the hook from the hovered *)
(* word, and the useWordDetection pointer-to-word resolver.                *)
(*                                                                         *)
(* Strings the code inspects character by character (the looked-up word,   *)
(* the text of a text run) are sequences of one-character strings; the     *)
(* empty string is << >>.  A value that may be null is a sequence of       *)
(* length 0 (null) or 1 (the value).  A JavaScript Map is the sequence of  *)
(* its entries in insertion order.                                         *)
(*                                                                         *)
(* Time of the dictionary layer is counted in cleanup intervals (one tick  *)
(* is the hour between two sweeps); Date.now() is the variable now.        *)
(***************************************************************************)
EXTENDS Integers, Sequences, FiniteSets, Bags, TLC

VARIABLES
    cache,        \* DictionaryService.cache: Map<string, CacheEntry>
    stats,        \* DictionaryService.stats: {hits, misses, entries}
    storage,      \* localStorage['docpeak_dictionary_cache']: null or the snapshot
    inflight,     \* bag of words whose fetch() has been issued and not yet answered
    now,          \* Date.now()
    cleanupDue,   \* the setInterval callback of startPeriodicCleanup is due
    storageFull,  \* localStorage.setItem throws (the quota is exceeded)
    dict,         \* useDictionary state: {definition, loading, error}
    effectWord,   \* hoveredWord.word of the last run of the PDFViewer effect (null: none)
    overlays,         \* the .word-highlight-overlay elements in the document
    highlightTimers,  \* the pending setTimeout callbacks of highlightWord: {due, word}
    selectedFile,     \* App state: the object URL of the chosen file | null
    pageNumber,       \* PDFViewer state: the page shown in the single-page view
    viewMode,         \* PDFViewer state: 'single' | 'all'
    chat,             \* useChat state: {messages, isLoading, error}, and the hook in use
    providerType,     \* the providerType of localStorage['docpeak_settings'] | null
    sends,            \* the provider calls issued and not yet settled: {id, provider}
    numPages,         \* PDFViewer state: the pages of the loaded document, 0 before
    scale,            \* PDFViewer state: the zoom factor, in units of 1 / (2 * pageWidth)
    containerWidth,   \* PDFViewer state: clientWidth of the document container
    selectedModel,    \* the selectedModel of localStorage['docpeak_settings'] | null
    geminiApiKey,     \* the geminiApiKey of localStorage['docpeak_settings'] | null
    ollamaEndpoint,   \* the ollamaEndpoint of localStorage['docpeak_settings'] | null
    modal,            \* SettingsModal state, and what a running handleSave closed over
    endpoint,         \* OllamaService.endpoint: string | null
    ollamaSends,      \* the ollamaService.sendMessage calls not yet settled
    hoveredWord,          \* useWordDetection state: WordPosition | null
    debounceTimeoutRef,   \* debounceTimeoutRef.current: a timer id | null
    currentElementRef,    \* currentElementRef.current: a text run | null
    currentWordRef,       \* currentWordRef.current: string | null
    timers,               \* the pending setTimeout callbacks: {id, due, event}
    nextTimerId,          \* the id the next setTimeout returns
    clock,                \* the time of the pointer events, in debounce ticks
    lastSample,           \* observation: the latest pointer-move sample not yet resolved
    wordElement,          \* observation: the run currentWordRef was resolved for
    calls,        \* observation: the number of service calls made so far
    served,       \* observation: per key, the definition its latest lookup returned
    last          \* observation: the handler that ran last and what it returned

svcVars == <<cache, stats, storage, inflight, now, cleanupDue, storageFull>>
uiVars == <<dict, effectWord, overlays, highlightTimers>>
viewerVars == <<numPages, scale, containerWidth>>
settingsVars == <<selectedModel, geminiApiKey, ollamaEndpoint, modal>>
ollamaVars == <<endpoint, ollamaSends>>
appVars == <<selectedFile, pageNumber, viewMode, chat, providerType, sends,
             viewerVars, settingsVars, ollamaVars>>
hoverVars == <<hoveredWord, debounceTimeoutRef, currentElementRef, currentWordRef,
               timers, nextTimerId, clock, lastSample, wordElement>>
vars == <<cache, stats, storage, inflight, now, cleanupDue, storageFull, dict, effectWord,
          overlays, highlightTimers, selectedFile, pageNumber, viewMode, chat,
          providerType, sends, numPages, scale, containerWidth,
          selectedModel, geminiApiKey, ollamaEndpoint, modal, endpoint, ollamaSends,
          hoveredWord, debounceTimeoutRef, currentElementRef, currentWordRef,
          timers, nextTimerId, clock, lastSample, wordElement,
          calls, served, last>>

\* ---------------------------------------------------------------- bounds
MaxTime == 2         \* the clock stops advancing here
MaxCalls == 3       \* calls of the service (lookups, clearCache, page loads) in one behaviour
MaxInflight == 2     \* fetches in flight together
MaxClock == 4        \* the clock of the pointer events stops advancing here
MaxSamples == 3    \* pointer samples that schedule a resolution
MaxPages == 2      \* pages of the document

\* ------------------------------------------------------ program constants
\* fitToWidth: the estimated width of a page and the padding, in points.
pageWidth == 595
padding == 40

\* maxCacheSize is 1000 in the source; scaled so that a full cache is reachable.
maxCacheSize == 2
\* cacheExpirationMs is 24 h in the source, i.e. 24 cleanup intervals; scaled.
cacheExpirationMs == 1
\* The debounce delay is 50 ms in the source; one debounce tick is 25 ms.
DebounceTicks == 2
\* The delay of the setTimeout of highlightWord (50 ms), in the same ticks.
HighlightDelayTicks == 2

\* ------------------------------------------------------------- null values
None == << >>
Some(x) == <<x>>

\* ------------------------------------------------------------------ words
\* The words handed to useDictionary.fetchDefinition: "Ab", "cd", "  " (two
\* blanks) and "a".
RawWords == { <<"A", "b">>, <<"c", "d">>, <<" ", " ">>, <<"a">> }

\* The words fetchWordDefinition is called with: "Ab", "cd" and "  ".
ServiceWords == { <<"A", "b">>, <<"c", "d">>, <<" ", " ">> }

LowerCaseLetters ==
    <<"a", "b", "c", "d", "e", "f", "g", "h", "i", "j", "k", "l", "m",
      "n", "o", "p", "q", "r", "s", "t", "u", "v", "w", "x", "y", "z">>

UpperCaseLetters ==
    <<"A", "B", "C", "D", "E", "F", "G", "H", "I", "J", "K", "L", "M",
      "N", "O", "P", "Q", "R", "S", "T", "U", "V", "W", "X", "Y", "Z">>

Range(f) == { f[i] : i \in DOMAIN f }

\* String.prototype.toLowerCase, one character.
ToLowerCaseChar(ch) ==
    IF \E i \in DOMAIN UpperCaseLetters : UpperCaseLetters[i] = ch
    THEN LowerCaseLetters[CHOOSE i \in DOMAIN UpperCaseLetters : UpperCaseLetters[i] = ch]
    ELSE ch

ToLowerCase(s) == [i \in 1..Len(s) |-> ToLowerCaseChar(s[i])]

IsWhitespace(ch) == ch = " "

RECURSIVE TrimStart(_)
TrimStart(s) ==
    IF s # << >> /\ IsWhitespace(Head(s)) THEN TrimStart(Tail(s)) ELSE s

RECURSIVE TrimEnd(_)
TrimEnd(s) ==
    IF s # << >> /\ IsWhitespace(s[Len(s)])
    THEN TrimEnd(SubSeq(s, 1, Len(s) - 1))
    ELSE s

\* String.prototype.trim
Trim(s) == TrimEnd(TrimStart(s))

\* word.toLowerCase().trim() of every word looked up, computed once.
NormalizedWords == [w \in RawWords \cup {<< >>} |-> Trim(ToLowerCase(w))]

\* const normalizedWord = word.toLowerCase().trim();
NormalizeWord(word) ==
    IF word \in DOMAIN NormalizedWords
    THEN NormalizedWords[word]
    ELSE Trim(ToLowerCase(word))

\* The cache keys these words give.
Keys == { NormalizeWord(w) : w \in RawWords }

\* --------------------------------------------------- the dictionary source
\* Two entries the dictionary API may answer with (data[0]).  A definition
\* text or a phonetics text may be the empty string.
ApiEntryA ==
    [meanings |-> << [partOfSpeech |-> "noun", definitions |-> << "n1" >>] >>,
     phonetics |-> << "pa" >>]

ApiEntryB ==
    [meanings |-> << [partOfSpeech |-> "",
                      definitions |-> << "d1", "", "d2", "d3" >>],
                     [partOfSpeech |-> "verb", definitions |-> << "d4" >>] >>,
     phonetics |-> << "", "pb" >>]

\* The entries the source may hold for a word: it may answer two lookups of
\* "ab" differently, and has one entry for any other word.
ApiEntries(word) ==
    IF NormalizeWord(word) = <<"a", "b">> THEN {ApiEntryA, ApiEntryB} ELSE {ApiEntryB}

\* What the fetch for word can end in: a non-2xx status, an empty array, a
\* thrown transport error, or an array whose first element is an entry.
Responses(word) ==
    { [kind |-> "notOk", data |-> None],
      [kind |-> "empty", data |-> None],
      [kind |-> "throw", data |-> None] }
    \cup { [kind |-> "entries", data |-> Some(e)] : e \in ApiEntries(word) }

RECURSIVE Concat(_)
Concat(ss) == IF ss = << >> THEN << >> ELSE Head(ss) \o Concat(Tail(ss))

\* Array.prototype.slice(0, n)
Slice(s, n) == SubSeq(s, 1, IF Len(s) < n THEN Len(s) ELSE n)

\* meaning.definitions.slice(0, 3).forEach(def => if (def.definition) push)
MeaningDefinitions(meaning) ==
    SelectSeq(Slice(meaning.definitions, 3), LAMBDA d : d # "")

\* if (!partOfSpeech && meaning.partOfSpeech) partOfSpeech = meaning.partOfSpeech
RECURSIVE FirstNonEmpty(_)
FirstNonEmpty(texts) ==
    IF texts = << >> THEN ""
    ELSE IF Head(texts) # "" THEN Head(texts)
    ELSE FirstNonEmpty(Tail(texts))

\* The WordDefinition built from data[0].
ParseEntry(normalizedWord, entry) ==
    [word |-> normalizedWord,
     definitions |->
        Slice(Concat([i \in 1..Len(entry.meanings) |->
                        MeaningDefinitions(entry.meanings[i])]), 3),
     phonetics |-> FirstNonEmpty(entry.phonetics),
     partOfSpeech |->
        FirstNonEmpty([i \in 1..Len(entry.meanings) |->
                        entry.meanings[i].partOfSpeech])]

\* ----------------------------------------------------------- Map<string, _>
MapHas(m, k) == \E i \in 1..Len(m) : m[i].key = k

MapGet(m, k) == m[CHOOSE i \in 1..Len(m) : m[i].key = k].entry

MapDelete(m, k) == SelectSeq(m, LAMBDA x : x.key # k)

\* Map.prototype.set: an existing key keeps its place in the iteration order.
MapSet(m, k, e) ==
    IF MapHas(m, k)
    THEN [i \in 1..Len(m) |-> IF m[i].key = k THEN [key |-> k, entry |-> e] ELSE m[i]]
    ELSE Append(m, [key |-> k, entry |-> e])

MapKeys(m) == { m[i].key : i \in 1..Len(m) }

\* ------------------------------------------------ persistence of the cache
\* cacheObj: the plain object built from the Map, as its own properties in
\* creation order (no key used here is an integer index or "__proto__").
RECURSIVE CacheObj(_)
CacheObj(m) ==
    IF m = << >> THEN << >>
    ELSE << <<Head(m).key, Head(m).entry>> >> \o CacheObj(Tail(m))

\* A snapshot taken with the stats of an empty cache.
PersistCacheWithoutStats(c, s, t) ==
    Some([cache |-> CacheObj(c), stats |-> [hits |-> 0, misses |-> 0, entries |-> 0],
          timestamp |-> t])

\* A snapshot that holds only the entry set last.
PersistNewestOnly(c, s, t) ==
    IF storageFull THEN storage
    ELSE Some([cache |-> CacheObj(SubSeq(c, Len(c), Len(c))), stats |-> s, timestamp |-> t])

\* persistCacheToStorage: the item under persistenceKey afterwards.  When
\* setItem throws, the error is caught and the item stays as it was.
PersistCacheToStorage(c, s, t) ==
    IF storageFull THEN storage
    ELSE Some([cache |-> CacheObj(c), stats |-> s, timestamp |-> t])

\* for (const [key, entry] of Object.entries(data.cache)) this.cache.set(key, entry)
RECURSIVE LoadEntries(_, _)
LoadEntries(m, obj) ==
    IF obj = << >> THEN m
    ELSE LoadEntries(MapSet(m, Head(obj)[1], Head(obj)[2]), Tail(obj))

EmptyStats == [hits |-> 0, misses |-> 0, entries |-> 0]

\* getHitRate: the quotient hits / total as the pair <<numerator, denominator>>,
\* and the number 0, written <<0, 1>>, when total is 0.
GetHitRate(s) ==
    LET total == s.hits + s.misses
    IN  IF total = 0 THEN <<0, 1>> ELSE <<s.hits, total>>

\* An item under persistenceKey that the service did not write itself, by its
\* text: the empty string, a text JSON.parse rejects, the text "null", or the
\* text of an object whose cache and stats properties are given by their
\* JSON values.  A JSON value is a record: absent (no such property), null, a
\* number (5), a string (chars), or an object (its entries in order).
CacheParts ==
    { [type |-> "absent"], [type |-> "null"], [type |-> "number"],
      [type |-> "string", chars |-> <<"a", "b">>],
      [type |-> "object", entries |-> << >>],
      [type |-> "object",
       entries |-> << << <<"c", "d">>,
                         [value |-> [word |-> <<"c", "d">>, definitions |-> <<"d1">>,
                                     phonetics |-> "", partOfSpeech |-> "noun"],
                          timestamp |-> 0, accessCount |-> 1] >> >>] }

StatsParts ==
    { [type |-> "absent"], [type |-> "null"], [type |-> "number"],
      [type |-> "object", entries |-> << >>],
      [type |-> "object", entries |-> << <<"hits", 1>> >>],
      [type |-> "object",
       entries |-> << <<"hits", 1>>, <<"misses", 2>>, <<"entries", 1>> >>] }

ForeignItems ==
    { [text |-> "empty"], [text |-> "unparsable"], [text |-> "null"] }
    \cup { [text |-> "object", cache |-> c, stats |-> st] :
              c \in CacheParts, st \in StatsParts }

\* The truthiness of a JSON value: the number 5, a non-empty string and
\* every object are truthy; undefined and null are not.
Truthy(part) == part.type \in {"number", "string", "object"}

\* Object.entries(value): the properties of an object, the characters of a
\* string under their indices "0", "1", ..., nothing for a number.
ObjectEntries(part) ==
    IF part.type = "object" THEN part.entries
    ELSE IF part.type = "string"
    THEN [i \in 1..Len(part.chars) |->
            << <<IF i = 1 THEN "0" ELSE "1">>, [primitive |-> part.chars[i]] >>]
    ELSE << >>

\* this.stats = data.stats: an object with the three counters is the stats
\* record; any other truthy value is kept as it is.
StatsValue(part) ==
    IF part.type = "object"
       /\ { part.entries[i][1] : i \in 1..Len(part.entries) } = {"hits", "misses", "entries"}
    THEN [hits |-> part.entries[1][2], misses |-> part.entries[2][2],
          entries |-> part.entries[3][2]]
    ELSE [foreign |-> part]

\* loadCacheFromStorage on a fresh service: the cache and stats it ends with.
\* getItem gives null, or the item; an empty text is falsy; JSON.parse may
\* throw, and so does data.cache when the text is "null": both are caught.
LoadCacheFromStorage(stored) ==
    IF stored = None
    THEN [cache |-> << >>, stats |-> EmptyStats]
    ELSE IF "text" \notin DOMAIN stored[1]
    THEN [cache |-> LoadEntries(<< >>, stored[1].cache), stats |-> stored[1].stats]
    ELSE IF stored[1].text \in {"empty", "unparsable", "null"}
    THEN [cache |-> << >>, stats |-> EmptyStats]
    ELSE IF Truthy(stored[1].cache) /\ Truthy(stored[1].stats)
    THEN [cache |-> LoadEntries(<< >>, ObjectEntries(stored[1].cache)),
          stats |-> StatsValue(stored[1].stats)]
    ELSE [cache |-> << >>, stats |-> EmptyStats]

\* ------------------------------------------------------- the cache proper
IsExpired(e, t) == t - e.timestamp > cacheExpirationMs

\* getCachedEntry without the expiry test.
GetCachedEntryNoExpiry(c, s, word, t) ==
    IF ~MapHas(c, word)
    THEN [entry |-> None, cache |-> c, stats |-> s]
    ELSE [entry |-> Some(MapGet(c, word)), cache |-> c, stats |-> s]

\* getCachedEntry that deletes an expired entry and leaves stats.entries alone.
GetCachedEntryStaleCount(c, s, word, t) ==
    IF ~MapHas(c, word)
    THEN [entry |-> None, cache |-> c, stats |-> s]
    ELSE IF IsExpired(MapGet(c, word), t)
    THEN [entry |-> None, cache |-> MapDelete(c, word), stats |-> s]
    ELSE [entry |-> Some(MapGet(c, word)), cache |-> c, stats |-> s]

\* getCachedEntry: the entry returned (null when absent or expired) and the
\* cache and stats it leaves.
GetCachedEntry(c, s, word, t) ==
    IF ~MapHas(c, word)
    THEN [entry |-> None, cache |-> c, stats |-> s]
    ELSE IF IsExpired(MapGet(c, word), t)
    THEN [entry |-> None,
          cache |-> MapDelete(c, word),
          stats |-> [s EXCEPT !.entries = Len(MapDelete(c, word))]]
    ELSE [entry |-> Some(MapGet(c, word)), cache |-> c, stats |-> s]

\* The forEach of evictLeastRecentlyUsed, from entry i on.  minAccessCount
\* starts as Infinity (None here), oldestTimestamp as Date.now().
RECURSIVE EvictScan(_, _, _)
EvictScan(c, i, acc) ==
    IF i > Len(c) THEN acc
    ELSE LET e == c[i].entry
             below == \/ acc.minAccessCount = None
                      \/ e.accessCount < acc.minAccessCount[1]
             tie == /\ acc.minAccessCount # None
                    /\ e.accessCount = acc.minAccessCount[1]
                    /\ e.timestamp < acc.oldestTimestamp
         IN  EvictScan(c, i + 1,
                 IF below \/ tie
                 THEN [lruKey |-> c[i].key,
                       minAccessCount |-> Some(e.accessCount),
                       oldestTimestamp |-> e.timestamp]
                 ELSE acc)

\* evictLeastRecentlyUsed: if (lruKey) this.cache.delete(lruKey)
EvictLeastRecentlyUsed(c, t) ==
    LET r == EvictScan(c, 1, [lruKey |-> << >>,
                              minAccessCount |-> None,
                              oldestTimestamp |-> t])
    IN  IF r.lruKey # << >> THEN MapDelete(c, r.lruKey) ELSE c

\* setCacheEntry: the cache, stats and storage item it leaves.
SetCacheEntry(c, s, word, definition, t) ==
    LET c1 == IF Len(c) >= maxCacheSize THEN EvictLeastRecentlyUsed(c, t) ELSE c
        c2 == MapSet(c1, word,
                     [value |-> definition, timestamp |-> t, accessCount |-> 1])
        s2 == [s EXCEPT !.entries = Len(c2)]
    IN  [cache |-> c2, stats |-> s2, storage |-> PersistCacheToStorage(c2, s2, t)]

\* A hit that forgets to count the access.
HitEntryNoCount(e) == e

\* cachedEntry.accessCount++ on a hit.
HitEntry(e) == [e EXCEPT !.accessCount = @ + 1]

\* fetchWordDefinition caching a null result as an entry without definitions.
AfterFetchNegativeCaching(c, s, st, word, resp, t) ==
    LET d == IF resp.kind = "entries"
             THEN ParseEntry(word, resp.data[1])
             ELSE [word |-> word, definitions |-> << >>,
                   phonetics |-> "", partOfSpeech |-> ""]
        r == SetCacheEntry(c, s, word, d, t)
    IN  [cache |-> r.cache, stats |-> r.stats, storage |-> r.storage,
         result |-> IF resp.kind = "entries" THEN Some(d) ELSE None,
         rejected |-> FALSE]

\* fetchWordDefinition after its await: a thrown error is caught, a non-2xx
\* status and an empty array return null, and none of them touches the cache;
\* an entry is parsed, cached and returned.  The promise never rejects.
AfterFetch(c, s, st, word, resp, t) ==
    IF resp.kind = "entries"
    THEN LET d == ParseEntry(word, resp.data[1])
             r == SetCacheEntry(c, s, word, d, t)
         IN  [cache |-> r.cache, stats |-> r.stats, storage |-> r.storage,
              result |-> Some(d), rejected |-> FALSE]
    ELSE [cache |-> c, stats |-> s, storage |-> st,
          result |-> None, rejected |-> FALSE]

\* A sweep that removes nothing.
WithoutExpiredKeepsAll(c, t) == c

\* cleanupExpiredEntries: the cache without the entries expired at t.
WithoutExpired(c, t) == SelectSeq(c, LAMBDA x : ~IsExpired(x.entry, t))

\* ---------------------------------------------------------- useDictionary
ClearedState == [definition |-> None, loading |-> FALSE, error |-> None]

\* if (!word || word.length < 2)
TooShort(word) == word = << >> \/ Len(word) < 2

\* The state the hook sets once the promise of fetchWordDefinition settles:
\* resolved to result, or rejected (the catch branch).
SettledState(result, rejected) ==
    IF rejected
    THEN [definition |-> None, loading |-> FALSE,
          error |-> Some("Failed to fetch definition")]
    ELSE IF result # None
    THEN [definition |-> result, loading |-> FALSE, error |-> None]
    ELSE [definition |-> None, loading |-> FALSE, error |-> Some("Word not found")]

\* The observation of a handler: what ran (op), on which word, which way it
\* went (kind) and what it returned (result).  A lookup also records what it
\* directly follows: a cold start ("start"), the answer of a fetch of the
\* same word that resolved to null ("null"), or the storage accepting writes
\* again while its snapshot was behind the cache ("stale"); a pointer move records that it
\* directly follows the pointer leaving ("leave").
Did(op, word, kind, result) ==
    [op |-> op, word |-> word, kind |-> kind, result |-> result,
     after |-> IF op = "move" /\ last.op = "leave" THEN "leave"
               ELSE IF op # "lookup" THEN ""
               ELSE IF last.op = "start" THEN "start"
               ELSE IF last.op = "complete" /\ last.word = word /\ last.result = None
               THEN "null"
               ELSE IF last.op = "storageFrees" THEN last.kind
               ELSE ""]

\* ------------------------------------------------------------------ Init
\* The zoom factor is kept as a multiple of 1 / (2 * pageWidth), in which the
\* factor fitToWidth computes, (containerWidth - padding) / pageWidth, and the
\* steps of 0.1 are whole numbers.
One == 2 * pageWidth

\* The state of a SettingsModal that is not open.
ClosedModal ==
    [version |-> "", isOpen |-> FALSE, apiKey |-> << >>, selectedModel |-> "", providerType |-> "gemini",
     ollamaEndpoint |-> << >>, isValidating |-> FALSE, validationError |-> None,
     isSaved |-> FALSE, saving |-> None]

Init ==
    /\ cache = << >>
    /\ stats = EmptyStats
    /\ storage = None
    /\ inflight = EmptyBag
    /\ now = 0
    /\ cleanupDue = FALSE
    /\ storageFull = FALSE
    /\ dict = ClearedState
    /\ effectWord = None
    /\ overlays = {}
    /\ highlightTimers = {}
    /\ selectedFile = None
    /\ pageNumber = 1
    /\ viewMode = "all"
    /\ chat = [hook |-> "", messages |-> << >>, isLoading |-> FALSE, error |-> None]
    /\ providerType = None
    /\ sends = {}
    /\ numPages = 0
    /\ scale = One
    /\ containerWidth = 0
    /\ selectedModel = None
    /\ geminiApiKey = None
    /\ ollamaEndpoint = None
    /\ modal = ClosedModal
    /\ endpoint = None
    /\ ollamaSends = {}
    /\ hoveredWord = None
    /\ debounceTimeoutRef = None
    /\ currentElementRef = None
    /\ currentWordRef = None
    /\ timers = {}
    /\ nextTimerId = 1
    /\ clock = 0
    /\ lastSample = None
    /\ wordElement = None
    /\ calls = 0
    /\ served = [k \in Keys |-> None]
    /\ last = [op |-> "init", word |-> << >>, kind |-> "", result |-> None,
               after |-> ""]

\* --------------------------------------------------------------- actions
\* fetchWordDefinition(word) up to its first await: a hit returns the cached
\* value in the same turn (last.result), a miss issues the fetch.
ServiceLookup(word) ==
    LET k == NormalizeWord(word)
        g == GetCachedEntry(cache, stats, k, now)
    IN  /\ calls < MaxCalls
        /\ calls' = calls + 1
        /\ IF g.entry # None
           THEN LET e == HitEntry(g.entry[1])
                    c2 == MapSet(g.cache, k, e)
                    s2 == [g.stats EXCEPT !.hits = @ + 1]
                IN  /\ cache' = c2
                    /\ stats' = s2
                    /\ storage' = PersistCacheToStorage(c2, s2, now)
                    /\ last' = Did("lookup", word, "hit", Some(e.value))
                    /\ served' = [served EXCEPT ![k] = Some(e.value)]
                    /\ UNCHANGED inflight
           ELSE /\ BagCardinality(inflight) < MaxInflight
                /\ cache' = g.cache
                /\ stats' = [g.stats EXCEPT !.misses = @ + 1]
                /\ inflight' = inflight (+) SetToBag({word})
                /\ last' = Did("lookup", word,
                                IF g.cache # cache THEN "expired" ELSE "miss", None)
                /\ UNCHANGED <<storage, served>>
        /\ UNCHANGED <<now, cleanupDue, storageFull>>

\* The fetch of word is answered with resp: the rest of fetchWordDefinition,
\* which resolves to last.result.
ServiceCompletion(word, resp) ==
    /\ BagIn(word, inflight)
    /\ inflight' = inflight (-) SetToBag({word})
    /\ LET k == NormalizeWord(word)
           r == AfterFetch(cache, stats, storage, k, resp, now)
       IN  /\ cache' = r.cache
           /\ stats' = r.stats
           /\ storage' = r.storage
           /\ served' = IF r.result # None THEN [served EXCEPT ![k] = r.result]
                         ELSE served
           /\ last' = Did("complete", word,
                           IF r.rejected THEN "rejected" ELSE resp.kind, r.result)
    /\ UNCHANGED <<now, cleanupDue, storageFull, calls>>

\* dictionaryService.fetchWordDefinition(word) called on the service itself.
FetchWordDefinition(word) ==
    /\ ServiceLookup(word)
    /\ UNCHANGED <<uiVars, hoverVars, appVars>>

\* The fetch of such a call is answered.
FetchCompletes(word, resp) ==
    /\ ServiceCompletion(word, resp)
    /\ UNCHANGED <<uiVars, hoverVars, appVars>>

\* One cleanup interval passes.
Tick ==
    /\ now < MaxTime
    /\ now' = now + 1
    /\ cleanupDue' = TRUE
    /\ last' = Did("tick", << >>, "", None)
    /\ UNCHANGED <<cache, stats, storage, inflight, storageFull, uiVars, calls,
                   served, hoverVars, appVars>>

\* The interval callback: cleanupExpiredEntries.
CleanupExpiredEntries ==
    /\ cleanupDue
    /\ cleanupDue' = FALSE
    /\ LET c2 == WithoutExpired(cache, now)
           s2 == [stats EXCEPT !.entries = Len(c2)]
       IN  IF Len(cache) - Len(c2) > 0
           THEN /\ cache' = c2
                /\ stats' = s2
                /\ storage' = PersistCacheToStorage(c2, s2, now)
           ELSE UNCHANGED <<cache, stats, storage>>
    /\ last' = Did("sweep", << >>,
                   IF Len(WithoutExpired(cache, now)) < Len(cache) THEN "removed" ELSE "",
                   None)
    /\ UNCHANGED <<inflight, now, storageFull, uiVars, calls, served, hoverVars, appVars>>

\* clearCache
ClearCache ==
    /\ calls < MaxCalls
    /\ calls' = calls + 1
    /\ cache' = << >>
    /\ stats' = EmptyStats
    /\ storage' = None
    /\ last' = Did("clearCache", << >>, "", None)
    /\ UNCHANGED <<inflight, now, cleanupDue, storageFull, uiVars, served,
                   hoverVars, appVars>>

\* The page is loaded again: a new DictionaryService is constructed
\* (loadCacheFromStorage, startPeriodicCleanup), the hooks start afresh and
\* the fetches of the previous page are gone.
ColdStart ==
    /\ calls < MaxCalls
    /\ calls' = calls + 1
    /\ cache' = LoadCacheFromStorage(storage).cache
    /\ stats' = LoadCacheFromStorage(storage).stats
    /\ inflight' = EmptyBag
    /\ cleanupDue' = FALSE
    /\ dict' = ClearedState
    /\ effectWord' = None
    /\ overlays' = {}
    /\ highlightTimers' = {}
    /\ selectedFile' = None
    /\ pageNumber' = 1
    /\ viewMode' = "all"
    /\ chat' = [chat EXCEPT !.messages = << >>, !.isLoading = FALSE, !.error = None]
    /\ sends' = {}
    /\ UNCHANGED <<providerType, selectedModel, geminiApiKey, ollamaEndpoint>>
    /\ numPages' = 0
    /\ scale' = One
    /\ containerWidth' = 0
    /\ modal' = ClosedModal
    /\ endpoint' = None
    /\ ollamaSends' = {}
    /\ hoveredWord' = None
    /\ debounceTimeoutRef' = None
    /\ currentElementRef' = None
    /\ currentWordRef' = None
    /\ timers' = {}
    /\ lastSample' = None
    /\ wordElement' = None
    /\ UNCHANGED <<nextTimerId, clock>>
    /\ last' = Did("start", << >>,
                    IF storage # None THEN "rehydrated" ELSE "empty", None)
    /\ UNCHANGED <<storage, now, storageFull, served>>

\* The dictionary service under any caller.
Next ==
    \/ \E word \in ServiceWords : FetchWordDefinition(word)
    \/ \E word \in ServiceWords : \E resp \in Responses(word) : FetchCompletes(word, resp)
    \/ Tick
    \/ CleanupExpiredEntries
    \/ ClearCache
    \/ ColdStart

Spec == Init /\ [][Next]_vars

\* ------------------------------------------- the service on a full storage
\* The words looked up while the storage may refuse writes: "Ab" and "cd".
QuotaWords == { <<"A", "b">>, <<"c", "d">> }

\* The storage quota is reached: setItem throws from now on.
StorageFills ==
    /\ ~storageFull
    /\ storageFull' = TRUE
    /\ last' = Did("storageFills", << >>, "", None)
    /\ UNCHANGED <<cache, stats, storage, inflight, now, cleanupDue, uiVars, hoverVars, appVars,
                   calls, served>>

\* Room is made in the storage: setItem succeeds again.
StorageFrees ==
    /\ storageFull
    /\ storageFull' = FALSE
    /\ last' = Did("storageFrees", << >>,
                   IF \/ (storage = None /\ cache = << >>)
                      \/ (storage # None /\ storage[1].cache = CacheObj(cache))
                   THEN "" ELSE "stale",
                   None)
    /\ UNCHANGED <<cache, stats, storage, inflight, now, cleanupDue, uiVars, hoverVars, appVars,
                   calls, served>>

NextQuota ==
    \/ \E word \in QuotaWords : FetchWordDefinition(word)
    \/ \E word \in QuotaWords : \E resp \in Responses(word) : FetchCompletes(word, resp)
    \/ StorageFills
    \/ StorageFrees

SpecQuota == Init /\ [][NextQuota]_vars

\* ------------------------------------ the service started on a foreign item
\* Something other than this service leaves an item under persistenceKey: an
\* older version of the page, a truncated write, the user.
StorageHolds(item) ==
    /\ storage # Some(item)
    /\ storage' = Some(item)
    /\ last' = Did("storageHolds", << >>, "", None)
    /\ UNCHANGED <<cache, stats, inflight, now, cleanupDue, storageFull, uiVars, hoverVars, appVars,
                   calls, served>>

\* The key is removed from the storage.
StorageRemoved ==
    /\ storage # None
    /\ storage' = None
    /\ last' = Did("storageRemoved", << >>, "", None)
    /\ UNCHANGED <<cache, stats, inflight, now, cleanupDue, storageFull, uiVars, hoverVars, appVars,
                   calls, served>>

NextLoad ==
    \/ \E item \in ForeignItems : StorageHolds(item)
    \/ StorageRemoved
    \/ ColdStart

SpecLoad == Init /\ [][NextLoad]_vars

\* ------------------------------------------------- the viewer's session
\* clearHighlights: every .word-highlight-overlay element is removed.
ClearHighlights == {}

\* highlightWord after its clearHighlights: setTimeout(callback, 50).  The
\* timer id is dropped, so the callback cannot be cancelled.
SetHighlightTimeout(ts, word, t) ==
    ts \cup {[due |-> t + HighlightDelayTicks, word |-> word]}

\* The PDFViewer effect runs with a hovered word: fetchDefinition(word), then
\* highlightWord(hoveredWord).  A cache hit resolves in the same turn, so the
\* hook's continuation is part of this step.
HoverWord(word) ==
    /\ UNCHANGED <<hoverVars, appVars>>
    /\ effectWord # Some(word)
    /\ effectWord' = Some(word)
    /\ overlays' = ClearHighlights
    /\ highlightTimers' = SetHighlightTimeout(highlightTimers, word, clock)
    /\ IF TooShort(word)
       THEN /\ dict' = ClearedState
            /\ last' = Did("reject", word, "", None)
            /\ UNCHANGED <<svcVars, calls, served>>
       ELSE /\ ServiceLookup(word)
            /\ dict' = IF last'.kind = "hit"
                       THEN SettledState(last'.result, FALSE)
                       ELSE [dict EXCEPT !.loading = TRUE, !.error = None]

\* The PDFViewer effect runs with hoveredWord null: clearDefinition(), then
\* clearHighlights().
HoverNone ==
    /\ UNCHANGED <<hoverVars, appVars>>
    /\ effectWord # None
    /\ effectWord' = None
    /\ overlays' = ClearHighlights
    /\ UNCHANGED highlightTimers
    /\ dict' = ClearedState
    /\ last' = Did("clear", << >>, "", None)
    /\ UNCHANGED <<svcVars, calls, served>>

\* The fetch of a hovered word is answered: the rest of fetchWordDefinition,
\* then the rest of useDictionary.fetchDefinition.
DefinitionArrives(word, resp) ==
    /\ ServiceCompletion(word, resp)
    /\ dict' = SettledState(last'.result, last'.kind = "rejected")
    /\ UNCHANGED <<effectWord, overlays, highlightTimers, hoverVars, appVars>>

NextUI ==
    \/ \E word \in RawWords : HoverWord(word)
    \/ HoverNone
    \/ \E word \in RawWords : \E resp \in Responses(word) : DefinitionArrives(word, resp)

SpecUI == Init /\ [][NextUI]_vars

\* ------------------------------------------------ the pointer-to-word resolver
\* The text runs of the rendered page: textContent and getBoundingClientRect().
\* "e1" holds two words, "e2" one word with punctuation, "e3" no word; "e4"
\* is "Hello, world", "e5" is "a.b  c-d it's", "e6" is "I (ok) x1" and "e7"
\* is "a_b Ab.", rendered two units wide per character.
TextRuns ==
    [e1 |-> [text |-> <<"a", "b", " ", "c", "d">>,
             left |-> 10, top |-> 0, width |-> 5, height |-> 1],
     e2 |-> [text |-> <<"E", "f", ".">>,
             left |-> 20, top |-> 0, width |-> 3, height |-> 1],
     e3 |-> [text |-> <<"x", "1">>,
             left |-> 30, top |-> 0, width |-> 2, height |-> 1],
     e4 |-> [text |-> <<"H", "e", "l", "l", "o", ",", " ", "w", "o", "r", "l", "d">>,
             left |-> 40, top |-> 2, width |-> 12, height |-> 1],
     e5 |-> [text |-> <<"a", ".", "b", " ", " ", "c", "-", "d", " ", "i", "t", "'", "s">>,
             left |-> 60, top |-> 3, width |-> 13, height |-> 1],
     e6 |-> [text |-> <<"I", " ", "(", "o", "k", ")", " ", "x", "1">>,
             left |-> 80, top |-> 4, width |-> 9, height |-> 1],
     e7 |-> [text |-> <<"a", "_", "b", " ", "A", "b", ".">>,
             left |-> 100, top |-> 5, width |-> 14, height |-> 1]]

\* The runs the pointer visits in a hover session.
Elements == {"e1", "e2", "e3"}

\* The samples that probe the resolver: a run of text and an x position from
\* one unit left of the run to one unit right of it.
ProbeEvents ==
    { [target |-> Some(el), clientX |-> TextRuns[el].left + dx] :
        el \in {"e2", "e4", "e5", "e6"}, dx \in {-1, 0, 2, 4, 6, 7, 9, 12, 13, 14} }

\* The pointer-move samples: the text run under the pointer (null: none, the
\* result of the closest() chain of handleMouseMove) and event.clientX.
MouseEvents ==
    [target : {Some(el) : el \in Elements} \cup {None}, clientX : {11, 14, 26}]

\* [a-zA-Z]
IsLetter(ch) == ch \in Range(LowerCaseLetters) \cup Range(UpperCaseLetters)

\* \w: [A-Za-z0-9_]
IsWordChar(ch) ==
    IsLetter(ch) \/ ch \in {"0", "1", "2", "3", "4", "5", "6", "7", "8", "9", "_"}

\* [.,;:!?'"()[\]{}]
IsCommonPunctuation(ch) ==
    ch \in {".", ",", ";", ":", "!", "?", "'", "\"", "(", ")", "[", "]", "{", "}"}

\* text.split(/(\s+)/), entry by entry: the maximal runs of blanks and of
\* other characters, in order.
RECURSIVE SplitRuns(_, _)
SplitRuns(s, acc) ==
    IF s = << >> THEN acc
    ELSE IF /\ acc # << >>
            /\ acc[Len(acc)] # << >>
            /\ IsWhitespace(acc[Len(acc)][1]) = IsWhitespace(Head(s))
    THEN SplitRuns(Tail(s), [acc EXCEPT ![Len(acc)] = Append(@, Head(s))])
    ELSE SplitRuns(Tail(s), Append(acc, <<Head(s)>>))

\* text.split(/(\s+)/): a text that starts or ends with blanks gets an empty
\* first or last entry, the empty text is one empty entry.
SplitKeepingWhitespace(s) ==
    IF s = << >> THEN << << >> >>
    ELSE (IF IsWhitespace(Head(s)) THEN << << >> >> ELSE << >>)
         \o SplitRuns(s, << >>)
         \o (IF IsWhitespace(s[Len(s)]) THEN << << >> >> ELSE << >>)

IsBlankRun(token) == token # << >> /\ \A i \in 1..Len(token) : IsWhitespace(token[i])

\* text.split(/\s+/)
SplitOnWhitespace(s) == SelectSeq(SplitKeepingWhitespace(s), LAMBDA tk : ~IsBlankRun(tk))

\* isEnglishWord
IsEnglishWord(text) ==
    LET cleanedText == SelectSeq(text, LAMBDA ch : ~IsCommonPunctuation(ch))
    IN  /\ cleanedText # << >>
        /\ \A i \in 1..Len(cleanedText) : IsLetter(cleanedText[i])
        /\ Len(cleanedText) > 1

\* cleanWord: text.replace(/[^\w]/g, '').toLowerCase()
CleanWord(text) ==
    ToLowerCase(SelectSeq(text, IsWordChar))

\* A measuring element that reports one unit for every token.
MeasureWidthOfOne(token) == 1

\* tempDiv.getBoundingClientRect().width for a token: the measuring element
\* is taken to render every character one unit wide.
MeasureWidth(token) == Len(token)

\* The loop of findWordAtMousePosition from entry i on.
RECURSIVE FindWordFrom(_, _, _, _, _)
FindWordFrom(words, i, accumulatedWidth, relativeX, rect) ==
    IF i > Len(words) THEN None
    ELSE IF IsBlankRun(words[i])
    THEN FindWordFrom(words, i + 1, accumulatedWidth + MeasureWidth(words[i]),
                      relativeX, rect)
    ELSE IF /\ relativeX >= accumulatedWidth
            /\ relativeX <= accumulatedWidth + MeasureWidth(words[i])
    THEN Some([word |-> Trim(words[i]),
               x |-> rect.left + accumulatedWidth,
               y |-> rect.top,
               width |-> MeasureWidth(words[i]),
               height |-> rect.height])
    ELSE FindWordFrom(words, i + 1, accumulatedWidth + MeasureWidth(words[i]),
                      relativeX, rect)

\* findWordAtMousePosition
FindWordAtMousePosition(rect, text, mouseX) ==
    FindWordFrom(SplitKeepingWhitespace(text), 1, 0, mouseX - rect.left, rect)

\* extractWordAtPosition
ExtractWordAtPosition(event) ==
    IF event.target = None \/ TextRuns[event.target[1]].text = << >>
    THEN None
    ELSE LET rect == TextRuns[event.target[1]]
             text == Trim(rect.text)
             words == SplitOnWhitespace(text)
             wordInfo == FindWordAtMousePosition(rect, text, event.clientX)
         IN  IF Len(words) > 1
             THEN IF wordInfo # None /\ IsEnglishWord(wordInfo[1].word)
                  THEN Some([wordInfo[1] EXCEPT !.word = CleanWord(@)])
                  ELSE None
             ELSE IF Len(words) = 1 /\ IsEnglishWord(words[1])
             THEN Some([word |-> CleanWord(words[1]),
                        x |-> rect.left, y |-> rect.top,
                        width |-> rect.width, height |-> rect.height])
             ELSE None

\* A clearTimeout that cancels nothing.
ClearTimeoutNoop(ts, ref) == ts

\* clearTimeout(ref) when ref is set; the id of a timer that has fired or
\* was cleared names no pending timer.
ClearTimeout(ts, ref) ==
    IF ref = None THEN ts ELSE { tm \in ts : tm.id # ref[1] }

\* setHoveredWord(prevWord => prevWord?.word !== wordInfo.word ? wordInfo : prevWord)
UpdateHoveredWord(prevWord, wordInfo) ==
    IF prevWord = None \/ prevWord[1].word # wordInfo.word
    THEN Some(wordInfo)
    ELSE prevWord

\* handleMouseMove
HandleMouseMove(event) ==
    LET textElement == event.target
        sample == [event |-> event, at |-> clock,
                   unresolved |-> /\ textElement # None
                                  /\ (currentWordRef = None \/ wordElement # textElement)]
    IN  /\ lastSample' = Some(sample)
        /\ IF textElement = currentElementRef /\ currentWordRef # None
           THEN /\ last' = Did("move", << >>, "ignored", None)
                /\ UNCHANGED <<debounceTimeoutRef, currentElementRef, timers, nextTimerId>>
           ELSE /\ nextTimerId <= MaxSamples
                /\ timers' = ClearTimeout(timers, debounceTimeoutRef)
                                \cup {[id |-> nextTimerId,
                                       due |-> clock + DebounceTicks,
                                       event |-> event]}
                /\ debounceTimeoutRef' = Some(nextTimerId)
                /\ nextTimerId' = nextTimerId + 1
                /\ currentElementRef' = textElement
                /\ last' = Did("move", << >>,
                               IF ClearTimeout(timers, debounceTimeoutRef) # timers
                               THEN "rescheduled" ELSE "scheduled", None)
        /\ UNCHANGED <<hoveredWord, currentWordRef, clock, wordElement>>
        /\ UNCHANGED <<svcVars, uiVars, appVars, calls, served>>

\* The callback of a debounce timer runs.
DebounceFires(tm) ==
    /\ tm \in timers
    /\ tm.due <= clock
    /\ timers' = timers \ {tm}
    /\ LET wordInfo == ExtractWordAtPosition(tm.event)
       IN  IF wordInfo # None
           THEN /\ currentWordRef' = Some(wordInfo[1].word)
                /\ hoveredWord' = UpdateHoveredWord(hoveredWord, wordInfo[1])
                /\ wordElement' = tm.event.target
                /\ last' = Did("fire", wordInfo[1].word, "word", None)
           ELSE /\ currentWordRef' = None
                /\ hoveredWord' = None
                /\ wordElement' = None
                /\ last' = Did("fire", << >>, "null", None)
    /\ lastSample' = None
    /\ UNCHANGED <<debounceTimeoutRef, currentElementRef, nextTimerId, clock>>
    /\ UNCHANGED <<svcVars, uiVars, appVars, calls, served>>

\* handleMouseLeave
HandleMouseLeave ==
    /\ timers' = ClearTimeout(timers, debounceTimeoutRef)
    /\ debounceTimeoutRef' = None
    /\ currentElementRef' = None
    /\ currentWordRef' = None
    /\ hoveredWord' = None
    /\ lastSample' = None
    /\ wordElement' = None
    /\ last' = Did("leave", << >>,
                   IF ClearTimeout(timers, debounceTimeoutRef) # timers
                   THEN "cancelled" ELSE "",
                   IF hoveredWord # None THEN Some(hoveredWord[1].word) ELSE None)
    /\ UNCHANGED <<nextTimerId, clock>>
    /\ UNCHANGED <<svcVars, uiVars, appVars, calls, served>>

\* One debounce tick passes; a timer that is due runs first.
ClockTick ==
    /\ clock < MaxClock
    /\ \A tm \in timers : tm.due > clock
    /\ clock' = clock + 1
    /\ last' = Did("tick", << >>, "", None)
    /\ UNCHANGED <<hoveredWord, debounceTimeoutRef, currentElementRef, currentWordRef,
                   timers, nextTimerId, lastSample, wordElement>>
    /\ UNCHANGED <<svcVars, uiVars, appVars, calls, served>>

NextHover ==
    \/ \E event \in MouseEvents : HandleMouseMove(event)
    \/ \E tm \in timers : DebounceFires(tm)
    \/ HandleMouseLeave
    \/ ClockTick

SpecHover == Init /\ [][NextHover]_vars

\* The resolver under the probing samples.
NextResolve ==
    \/ \E event \in ProbeEvents : HandleMouseMove(event)
    \/ \E tm \in timers : DebounceFires(tm)
    \/ HandleMouseLeave
    \/ ClockTick

SpecResolve == Init /\ [][NextResolve]_vars

\* ------------------------------------------------- the app and its viewer
\* The files a file input or a drop delivers, by name and MIME type.
Files ==
    { [name |-> "a.pdf", type |-> "application/pdf"],
      [name |-> "b.pdf", type |-> ""],
      [name |-> "c.png", type |-> "image/png"],
      [name |-> "d.pdf", type |-> "application/x-pdf"] }

\* event.target.files / event.dataTransfer.files: none, one or two files.
FileLists ==
    { << >> } \cup { <<f>> : f \in Files }
    \cup { <<f, g>> : f \in Files, g \in {h \in Files : h.type = "application/pdf"} }

\* An always-accepting file check.
AcceptsAnyFile(files) == Len(files) > 0

\* file && file.type === 'application/pdf', for file = files[0]
AcceptsFile(files) == Len(files) > 0 /\ files[1].type = "application/pdf"

\* What App renders: the header in both branches, then the viewer with the
\* 'Select New File' button, or the tagline with the file uploader.
Rendered(file) ==
    IF file # None
    THEN {"DocPeak PDF Viewer", "Select New File", "PDFViewer"}
    ELSE {"DocPeak PDF Viewer", "A PDF viewer for English language learners",
          "FileUploader"}

\* handleFileChange of the FileUploader, which App renders while no file is
\* selected; an accepted file goes to App.handleFileSelect, which stores
\* URL.createObjectURL(file); any other input raises the alert.
HandleFileChange(files) ==
    /\ "FileUploader" \in Rendered(selectedFile)
    /\ IF AcceptsFile(files)
       THEN selectedFile' = Some([blob |-> files[1].name])
       ELSE UNCHANGED selectedFile
    /\ last' = Did("fileChange", << >>,
                   IF files = << >> THEN "none" ELSE files[1].type,
                   IF AcceptsFile(files) THEN None ELSE Some("alert"))
    /\ UNCHANGED <<svcVars, uiVars, hoverVars, calls, served>>
    /\ UNCHANGED <<pageNumber, viewMode, chat, providerType, sends,
                   viewerVars, settingsVars, ollamaVars>>

\* handleDrop of the FileUploader
HandleDrop(files) ==
    /\ "FileUploader" \in Rendered(selectedFile)
    /\ IF AcceptsFile(files)
       THEN selectedFile' = Some([blob |-> files[1].name])
       ELSE UNCHANGED selectedFile
    /\ last' = Did("drop", << >>,
                   IF files = << >> THEN "none" ELSE files[1].type,
                   IF AcceptsFile(files) THEN None ELSE Some("alert"))
    /\ UNCHANGED <<svcVars, uiVars, hoverVars, calls, served>>
    /\ UNCHANGED <<pageNumber, viewMode, chat, providerType, sends,
                   viewerVars, settingsVars, ollamaVars>>

\* App.handleClearFile ('Select New File'): the PDFViewer is unmounted.  Its
\* effect cleanups run (clearHighlights, clearTimeout of the debounce timer)
\* and the state of its hooks is gone; the highlight timers stay pending.
HandleClearFile ==
    /\ "Select New File" \in Rendered(selectedFile)
    /\ selectedFile' = None
    /\ overlays' = ClearHighlights
    /\ timers' = ClearTimeout(timers, debounceTimeoutRef)
    /\ debounceTimeoutRef' = None
    /\ currentElementRef' = None
    /\ currentWordRef' = None
    /\ hoveredWord' = None
    /\ lastSample' = None
    /\ wordElement' = None
    /\ dict' = ClearedState
    /\ effectWord' = None
    /\ pageNumber' = 1
    /\ viewMode' = "all"
    /\ chat' = [chat EXCEPT !.messages = << >>, !.isLoading = FALSE, !.error = None]
    /\ sends' = {}
    /\ last' = Did("clearFile", << >>, "", None)
    /\ numPages' = 0
    /\ scale' = One
    /\ containerWidth' = 0
    /\ modal' = ClosedModal
    /\ UNCHANGED <<svcVars, highlightTimers, nextTimerId, clock, providerType, calls, served>>
    /\ UNCHANGED <<selectedModel, geminiApiKey, ollamaEndpoint, ollamaVars>>

\* The text runs of a page of the document: odd pages hold "e1", "e2" and
\* "e7", even pages "e1" and "e3".
PageRuns(page) == IF page % 2 = 1 THEN {"e1", "e2", "e7"} ELSE {"e1", "e3"}

\* pageContainer.getBoundingClientRect(): every page is laid out at the origin.
PageRect == [left |-> 0, top |-> 0]

\* currentOffset when the loop of addHighlightOverlay reaches words[k].
RECURSIVE CurrentOffset(_, _)
CurrentOffset(words, k) ==
    IF k <= 1 THEN 0 ELSE CurrentOffset(words, k - 1) + Len(words[k - 1])

\* The pages whose text layer is in the document: all of them in the 'all'
\* view, the current one in the 'single' view, none without a viewer.
RenderedPages(file, mode, page) ==
    IF file = None THEN {}
    ELSE IF mode = "all" THEN 1..numPages
    ELSE IF numPages = 0 THEN {}
    ELSE {page}

\* addHighlightOverlay(span, text, targetWord): one overlay per token of the
\* run whose cleaned form is the cleaned target and is not empty, placed at
\* the token's share of the run's width.  An overlay is named by its page,
\* run and token, and by the word it was computed for.
AddHighlightOverlay(page, run, targetWord) ==
    LET text == Trim(TextRuns[run].text)
        words == SplitKeepingWhitespace(text)
        spanRect == TextRuns[run]
    IN  IF text = << >> THEN {}
        ELSE { [page |-> page, run |-> run, token |-> i, word |-> targetWord,
                left |-> spanRect.left - PageRect.left
                           + (spanRect.width * CurrentOffset(words, i)) \div Len(text),
                top |-> spanRect.top - PageRect.top,
                width |-> (spanRect.width * (CurrentOffset(words, i) + Len(words[i])))
                             \div Len(text)
                          - (spanRect.width * CurrentOffset(words, i)) \div Len(text),
                height |-> spanRect.height] :
                 i \in { k \in 1..Len(words) :
                           /\ CleanWord(words[k]) = CleanWord(targetWord)
                           /\ Len(CleanWord(words[k])) > 0 } }

\* The callback of a highlightWord timer runs: an overlay for every match in
\* every text span that is in the document now.
HighlightFires(tm) ==
    /\ tm \in highlightTimers
    /\ tm.due <= clock
    /\ highlightTimers' = highlightTimers \ {tm}
    /\ overlays' = overlays \cup
          UNION { UNION { AddHighlightOverlay(page, run, tm.word) :
                            run \in PageRuns(page) } :
                    page \in RenderedPages(selectedFile, viewMode, pageNumber) }
    /\ last' = Did("highlight", tm.word, "", None)
    /\ UNCHANGED <<svcVars, dict, effectWord, hoverVars, appVars, calls, served>>

\* onDocumentLoadSuccess({numPages}): react-pdf has loaded the file of the
\* mounted viewer.
OnDocumentLoadSuccess(n) ==
    /\ "PDFViewer" \in Rendered(selectedFile)
    /\ numPages' = n
    /\ pageNumber' = 1
    /\ last' = Did("documentLoad", << >>, "", None)
    /\ UNCHANGED <<svcVars, uiVars, hoverVars, calls, served>>
    /\ UNCHANGED <<selectedFile, viewMode, chat, providerType, sends, scale,
                   containerWidth, settingsVars, ollamaVars>>

\* Math.min and Math.max
Min(a, b) == IF a < b THEN a ELSE b

Max(a, b) == IF a > b THEN a ELSE b

\* goToPreviousPage; its button is shown in the 'single' view and disabled on
\* the first page.
GoToPreviousPage ==
    /\ "PDFViewer" \in Rendered(selectedFile)
    /\ viewMode = "single"
    /\ pageNumber > 1
    /\ pageNumber' = Max(pageNumber - 1, 1)
    /\ overlays' = ClearHighlights
    /\ last' = Did("previousPage", << >>, "", None)
    /\ UNCHANGED <<svcVars, dict, effectWord, highlightTimers, hoverVars, calls, served>>
    /\ UNCHANGED <<selectedFile, viewMode, chat, providerType, sends,
                   viewerVars, settingsVars, ollamaVars>>

\* goToNextPage; its button is disabled on the last page.
GoToNextPage ==
    /\ "PDFViewer" \in Rendered(selectedFile)
    /\ viewMode = "single"
    /\ pageNumber < numPages
    /\ pageNumber' = Min(pageNumber + 1, numPages)
    /\ overlays' = ClearHighlights
    /\ last' = Did("nextPage", << >>, "", None)
    /\ UNCHANGED <<svcVars, dict, effectWord, highlightTimers, hoverVars, calls, served>>
    /\ UNCHANGED <<selectedFile, viewMode, chat, providerType, sends,
                   viewerVars, settingsVars, ollamaVars>>

\* toggleViewMode
ToggleViewMode ==
    /\ "PDFViewer" \in Rendered(selectedFile)
    /\ viewMode' = IF viewMode = "single" THEN "all" ELSE "single"
    /\ overlays' = ClearHighlights
    /\ last' = Did("toggleViewMode", << >>, "", None)
    /\ UNCHANGED <<svcVars, dict, effectWord, highlightTimers, hoverVars, calls, served>>
    /\ UNCHANGED <<selectedFile, pageNumber, chat, providerType, sends,
                   viewerVars, settingsVars, ollamaVars>>

\* The zoom factors 0.1, 0.5 and 3.0
Tenth == pageWidth \div 5

MinScale == pageWidth

MaxScale == 6 * pageWidth

\* The updater of zoomIn without its upper limit.
ZoomInUnlimited(prev) == prev + Tenth

\* The updaters of zoomIn and zoomOut
ZoomInScale(prev) == Min(prev + Tenth, MaxScale)

ZoomOutScale(prev) == Max(prev - Tenth, MinScale)

\* The factor fitToWidth sets for a container width.
FitScale(width) == Max(MinScale, Min(2 * (width - padding), MaxScale))

\* zoomIn
ZoomIn ==
    /\ "PDFViewer" \in Rendered(selectedFile)
    /\ scale' = ZoomInScale(scale)
    /\ last' = Did("zoomIn", << >>, "", None)
    /\ UNCHANGED <<svcVars, uiVars, hoverVars, calls, served>>
    /\ UNCHANGED <<selectedFile, pageNumber, viewMode, chat, providerType, sends,
                   numPages, containerWidth, settingsVars, ollamaVars>>

\* zoomOut
ZoomOut ==
    /\ "PDFViewer" \in Rendered(selectedFile)
    /\ scale' = ZoomOutScale(scale)
    /\ last' = Did("zoomOut", << >>, "", None)
    /\ UNCHANGED <<svcVars, uiVars, hoverVars, calls, served>>
    /\ UNCHANGED <<selectedFile, pageNumber, viewMode, chat, providerType, sends,
                   numPages, containerWidth, settingsVars, ollamaVars>>

\* resetZoom
ResetZoom ==
    /\ "PDFViewer" \in Rendered(selectedFile)
    /\ scale' = One
    /\ last' = Did("resetZoom", << >>, "", None)
    /\ UNCHANGED <<svcVars, uiVars, hoverVars, calls, served>>
    /\ UNCHANGED <<selectedFile, pageNumber, viewMode, chat, providerType, sends,
                   numPages, containerWidth, settingsVars, ollamaVars>>

\* fitToWidth: nothing happens while the container width is 0.
FitToWidth ==
    /\ "PDFViewer" \in Rendered(selectedFile)
    /\ scale' = IF containerWidth > 0 THEN FitScale(containerWidth) ELSE scale
    /\ last' = Did("fitToWidth", << >>, "", None)
    /\ UNCHANGED <<svcVars, uiVars, hoverVars, calls, served>>
    /\ UNCHANGED <<selectedFile, pageNumber, viewMode, chat, providerType, sends,
                   numPages, containerWidth, settingsVars, ollamaVars>>

\* The widths the document container is measured with.
ContainerWidths == {0, 30, 300, 800, 2000}

\* updateContainerWidth, run by the mount effect of the viewer and by every
\* resize event of the window.
UpdateContainerWidth(width) ==
    /\ "PDFViewer" \in Rendered(selectedFile)
    /\ containerWidth' = width
    /\ last' = Did("resize", << >>, "", None)
    /\ UNCHANGED <<svcVars, uiVars, hoverVars, calls, served>>
    /\ UNCHANGED <<selectedFile, pageNumber, viewMode, chat, providerType, sends,
                   numPages, scale, settingsVars, ollamaVars>>

\* The hoveredWord effect of a mounted viewer runs with a word.
ViewerHoverWord(word) == "PDFViewer" \in Rendered(selectedFile) /\ HoverWord(word)

\* The hoveredWord effect of a mounted viewer runs with null.
ViewerHoverNone == "PDFViewer" \in Rendered(selectedFile) /\ HoverNone

\* One tick passes; a highlight timer that is due runs first.
ViewerClockTick == (\A tm \in highlightTimers : tm.due > clock) /\ ClockTick

NextApp ==
    \/ \E files \in FileLists : HandleFileChange(files)
    \/ \E files \in FileLists : HandleDrop(files)
    \/ HandleClearFile
    \/ \E word \in QuotaWords : ViewerHoverWord(word)
    \/ ViewerHoverNone
    \/ \E tm \in highlightTimers : HighlightFires(tm)
    \/ GoToPreviousPage
    \/ GoToNextPage
    \/ ToggleViewMode
    \/ ViewerClockTick
    \/ \E n \in 1..MaxPages : OnDocumentLoadSuccess(n)

SpecApp == Init /\ [][NextApp]_vars

\* The page and zoom controls of the viewer.
NextViewer ==
    \/ \E files \in FileLists : HandleFileChange(files)
    \/ \E files \in FileLists : HandleDrop(files)
    \/ HandleClearFile
    \/ \E n \in 1..MaxPages : OnDocumentLoadSuccess(n)
    \/ GoToPreviousPage
    \/ GoToNextPage
    \/ ToggleViewMode
    \/ ZoomIn
    \/ ZoomOut
    \/ ResetZoom
    \/ FitToWidth
    \/ \E width \in ContainerWidths : UpdateContainerWidth(width)

SpecViewer == Init /\ [][NextViewer]_vars

\* ------------------------------------------------------------ the chat
\* The two useChat hooks of the repository: the one that selects the
\* provider from the settings, and the one that always calls Gemini.
ChatHooks == {"routing", "geminiOnly"}

\* The messages the user submits: text, text in blanks, blanks, nothing.
ChatInputs == { <<"h", "i">>, <<" ", "h", "i", " ">>, <<" ", " ">>, << >> }

\* settingsService.getProviderType(): parsed.providerType || 'gemini'.
GetProviderType == IF providerType = None THEN "gemini" ELSE providerType[1]

\* The errors geminiService.sendMessage rejects with: its catch block wraps
\* everything into a GeminiError.
GeminiErrors ==
    { [name |-> "GeminiError", type |-> "invalid_key",
       message |-> "Invalid API key. Please check your Gemini API key."],
      [name |-> "GeminiError", type |-> "network_error",
       message |-> "Network error. Please check your internet connection."],
      [name |-> "GeminiError", type |-> "api_error",
       message |-> "Gemini API key is not configured"],
      [name |-> "GeminiError", type |-> "api_error",
       message |-> "Failed to get response from Gemini API"] }

\* The errors ollamaService.sendMessage rejects with.
OllamaErrors ==
    { [name |-> "OllamaError", type |-> "model_not_found",
       message |-> "Model not found. Please ensure the model is installed in Ollama."],
      [name |-> "OllamaError", type |-> "network_error",
       message |-> "Network error. Please check if Ollama is running and accessible."],
      [name |-> "OllamaError", type |-> "api_error",
       message |-> "Ollama endpoint is not configured"],
      [name |-> "OllamaError", type |-> "api_error",
       message |-> "Failed to get response from Ollama API"] }

\* What a provider call settles with: the response text, or an error.
Outcomes(provider) ==
    { [ok |-> TRUE, text |-> "answer"] }
    \cup { [ok |-> FALSE, err |-> e] :
             e \in IF provider = "gemini" THEN GeminiErrors ELSE OllamaErrors }

\* The catch block of sendMessage: the text shown for an error.  The hook
\* that always calls Gemini reads every typed error as a GeminiError.
ErrorMessage(hook, err) ==
    IF err.name = "GeminiError" \/ hook = "geminiOnly"
    THEN IF err.type = "no_api_key"
         THEN "Please configure your Gemini API key in settings"
         ELSE IF err.type = "invalid_key"
         THEN "Invalid API key. Please check your settings"
         ELSE IF err.type = "network_error"
         THEN "Network error. Please check your connection"
         ELSE err.message
    ELSE IF err.type = "no_endpoint"
         THEN "Please configure your Ollama endpoint in settings"
         ELSE IF err.type = "model_not_found"
         THEN "Selected model not found. Please install the model in Ollama"
         ELSE IF err.type = "network_error"
         THEN "Cannot connect to Ollama. Please ensure Ollama is running"
         ELSE err.message

\* The provider sendMessage awaits.
ProviderOf(hook) ==
    IF hook = "geminiOnly" THEN "gemini"
    ELSE IF GetProviderType = "gemini" THEN "gemini" ELSE "ollama"

\* A component calls useChat().
UseChat(hook) ==
    /\ chat.hook = ""
    /\ chat' = [chat EXCEPT !.hook = hook]
    /\ last' = Did("useChat", << >>, hook, None)
    /\ UNCHANGED <<svcVars, uiVars, hoverVars, calls, served>>
    /\ UNCHANGED <<selectedFile, pageNumber, viewMode, providerType, sends,
                   viewerVars, settingsVars, ollamaVars>>

\* The models the settings offer.
AVAILABLE_GEMINI_MODELS ==
    << [id |-> "gemini-2.5-flash", provider |-> "gemini"],
       [id |-> "gemini-2.5-pro", provider |-> "gemini"] >>

AVAILABLE_OLLAMA_MODELS ==
    << [id |-> "llama3:latest", provider |-> "ollama"],
       [id |-> "mistral:latest", provider |-> "ollama"],
       [id |-> "codellama:latest", provider |-> "ollama"] >>

ALL_AVAILABLE_MODELS == AVAILABLE_GEMINI_MODELS \o AVAILABLE_OLLAMA_MODELS

DEFAULT_GEMINI_MODEL == AVAILABLE_GEMINI_MODELS[1]

DEFAULT_OLLAMA_MODEL == AVAILABLE_OLLAMA_MODELS[1]

\* getAvailableModelsForProvider
GetAvailableModelsForProvider(provider) ==
    SelectSeq(ALL_AVAILABLE_MODELS, LAMBDA m : m.provider = provider)

\* The endpoint loadSettings falls back to, 'http://localhost:11434', written
\* with one character for the host.
DefaultOllamaEndpoint == <<"h", ":", "/", "/", "l">>

\* loadSettings: every field of the stored item, or its default when the
\* field is missing or falsy.
LoadSettings ==
    [geminiApiKey |-> IF geminiApiKey = None THEN << >> ELSE geminiApiKey[1],
     selectedModel |-> IF selectedModel = None \/ selectedModel = Some("")
                       THEN DEFAULT_GEMINI_MODEL.id ELSE selectedModel[1],
     providerType |-> GetProviderType,
     ollamaEndpoint |-> IF ollamaEndpoint = None \/ ollamaEndpoint = Some(<< >>)
                        THEN DefaultOllamaEndpoint ELSE ollamaEndpoint[1]]

\* What updateGeminiApiKey, updateOllamaEndpoint, updateSelectedModel and
\* updateProviderType make of the settings they have loaded.
WithGeminiApiKey(settings, apiKey) == [settings EXCEPT !.geminiApiKey = apiKey]

WithOllamaEndpoint(settings, e) == [settings EXCEPT !.ollamaEndpoint = e]

WithSelectedModel(settings, modelId) ==
    LET found == SelectSeq(ALL_AVAILABLE_MODELS, LAMBDA m : m.id = modelId)
    IN  [settings EXCEPT
           !.selectedModel = modelId,
           !.providerType = IF found # << >> THEN found[1].provider
                            ELSE settings.providerType]

WithProviderType(settings, type) ==
    [settings EXCEPT
       !.providerType = type,
       !.selectedModel = IF type = "gemini" THEN DEFAULT_GEMINI_MODEL.id
                         ELSE DEFAULT_OLLAMA_MODEL.id]

\* settingsService.updateProviderType(type): loadSettings, then saveSettings
\* of all four fields.
UpdateProviderType(type) ==
    /\ providerType # Some(type)
    /\ providerType' = Some(type)
    /\ selectedModel' = Some(WithProviderType(LoadSettings, type).selectedModel)
    /\ geminiApiKey' = Some(LoadSettings.geminiApiKey)
    /\ ollamaEndpoint' = Some(LoadSettings.ollamaEndpoint)
    /\ last' = Did("updateProviderType", << >>, type, None)
    /\ UNCHANGED <<svcVars, uiVars, hoverVars, calls, served>>
    /\ UNCHANGED <<selectedFile, pageNumber, viewMode, chat, sends,
                   viewerVars, modal, ollamaVars>>

\* sendMessage(message) up to its await.
SendMessage(message) ==
    /\ chat.hook # ""
    /\ IF Trim(message) = << >>
       THEN /\ last' = Did("send", << >>, "blank", None)
            /\ UNCHANGED <<chat, sends, calls>>
       ELSE /\ calls < MaxCalls
            /\ Cardinality(sends) < MaxInflight
            /\ calls' = calls + 1
            /\ chat' = [chat EXCEPT
                          !.isLoading = TRUE,
                          !.error = None,
                          !.messages = Append(@, [role |-> "user",
                                                  content |-> Trim(message),
                                                  timestamp |-> now])]
            /\ sends' = sends \cup {[id |-> calls + 1, provider |-> ProviderOf(chat.hook)]}
            /\ last' = Did("send", Trim(message), ProviderOf(chat.hook), None)
    /\ UNCHANGED <<svcVars, uiVars, hoverVars, served>>
    /\ UNCHANGED <<selectedFile, pageNumber, viewMode, providerType,
                   viewerVars, settingsVars, ollamaVars>>

\* The provider call settles: the rest of sendMessage.
ProviderSettles(send, outcome) ==
    /\ send \in sends
    /\ sends' = sends \ {send}
    /\ IF outcome.ok
       THEN /\ chat' = [chat EXCEPT
                          !.isLoading = FALSE,
                          !.messages = Append(@, [role |-> "assistant",
                                                  content |-> outcome.text,
                                                  timestamp |-> now])]
            /\ last' = Did("settle", << >>, "ok", None)
       ELSE /\ chat' = [chat EXCEPT
                          !.isLoading = FALSE,
                          !.error = Some(ErrorMessage(chat.hook, outcome.err))]
            /\ last' = Did("settle", << >>, outcome.err.type, None)
    /\ UNCHANGED <<svcVars, uiVars, hoverVars, calls, served>>
    /\ UNCHANGED <<selectedFile, pageNumber, viewMode, providerType,
                   viewerVars, settingsVars, ollamaVars>>

\* clearChat
ClearChat ==
    /\ chat.hook # ""
    /\ chat' = [chat EXCEPT !.messages = << >>, !.error = None]
    /\ last' = Did("clearChat", << >>, "", None)
    /\ UNCHANGED <<svcVars, uiVars, hoverVars, calls, served>>
    /\ UNCHANGED <<selectedFile, pageNumber, viewMode, providerType, sends,
                   viewerVars, settingsVars, ollamaVars>>

\* clearError
ClearError ==
    /\ chat.hook # ""
    /\ chat' = [chat EXCEPT !.error = None]
    /\ last' = Did("clearError", << >>, "", None)
    /\ UNCHANGED <<svcVars, uiVars, hoverVars, calls, served>>
    /\ UNCHANGED <<selectedFile, pageNumber, viewMode, providerType, sends,
                   viewerVars, settingsVars, ollamaVars>>

NextChat ==
    \/ \E hook \in ChatHooks : UseChat(hook)
    \/ \E type \in {"gemini", "ollama"} : UpdateProviderType(type)
    \/ \E message \in ChatInputs : SendMessage(message)
    \/ \E send \in sends : \E outcome \in Outcomes(send.provider) :
          ProviderSettles(send, outcome)
    \/ ClearChat
    \/ ClearError

SpecChat == Init /\ [][NextChat]_vars

\* ------------------------------------------------------ the settings modal
\* The two SettingsModal components of the repository: the one that saves
\* the model and then the provider, and the one that saves the provider and
\* then the model.
SettingsModals == {"modelFirst", "providerFirst"}

\* What the user types as API key and as Ollama endpoint.
ApiKeys == { << >>, <<" ">>, <<"A", "I", "z", "a", "k">>, <<"k", "e", "y">> }

Endpoints ==
    { << >>, <<"o">>, <<"h", ":", "/", "/", "o">>, <<"h", ":", "/", "/", "o", "/">> }

\* apiKey.startsWith('AIza')
StartsWithAIza(apiKey) ==
    Len(apiKey) >= 4 /\ SubSeq(apiKey, 1, 4) = <<"A", "I", "z", "a">>

\* new URL(text) does not throw: the text is a scheme of letters, a colon
\* and more.
IsUrl(text) ==
    \E i \in 2..Len(text) :
        /\ text[i] = ":"
        /\ \A j \in 1..(i - 1) : IsLetter(text[j])

\* OllamaService.setEndpoint: the endpoint without one trailing slash.
SetEndpoint(e) ==
    IF Len(e) > 0 /\ e[Len(e)] = "/" THEN SubSeq(e, 1, Len(e) - 1) ELSE e

\* handleOpenSettings, and the isOpen effect of the modal: its fields are
\* loaded from the settings.
HandleOpenSettings(version) ==
    /\ "PDFViewer" \in Rendered(selectedFile)
    /\ ~modal.isOpen
    /\ modal' = [version |-> version, isOpen |-> TRUE,
                 apiKey |-> LoadSettings.geminiApiKey,
                 selectedModel |-> LoadSettings.selectedModel,
                 providerType |-> LoadSettings.providerType,
                 ollamaEndpoint |-> LoadSettings.ollamaEndpoint,
                 isValidating |-> FALSE, validationError |-> None,
                 isSaved |-> FALSE, saving |-> None]
    /\ last' = Did("openSettings", << >>, version, None)
    /\ UNCHANGED <<svcVars, uiVars, hoverVars, calls, served>>
    /\ UNCHANGED <<selectedFile, pageNumber, viewMode, chat, providerType, sends,
                   viewerVars, selectedModel, geminiApiKey, ollamaEndpoint, ollamaVars>>

\* handleProviderChange: the provider select, disabled while validating.
HandleProviderChange(newProvider) ==
    /\ modal.isOpen
    /\ ~modal.isValidating
    /\ modal' = [modal EXCEPT
                   !.providerType = newProvider,
                   !.selectedModel =
                      IF GetAvailableModelsForProvider(newProvider) # << >>
                      THEN GetAvailableModelsForProvider(newProvider)[1].id
                      ELSE @,
                   !.validationError = None]
    /\ last' = Did("providerChange", << >>, newProvider, None)
    /\ UNCHANGED <<svcVars, uiVars, hoverVars, calls, served>>
    /\ UNCHANGED <<selectedFile, pageNumber, viewMode, chat, providerType, sends,
                   viewerVars, selectedModel, geminiApiKey, ollamaEndpoint, ollamaVars>>

\* The model select: one of the models of the provider chosen in the modal.
SetSelectedModel(modelId) ==
    /\ modal.isOpen
    /\ ~modal.isValidating
    /\ \E i \in 1..Len(GetAvailableModelsForProvider(modal.providerType)) :
          GetAvailableModelsForProvider(modal.providerType)[i].id = modelId
    /\ modal' = [modal EXCEPT !.selectedModel = modelId]
    /\ last' = Did("selectModel", << >>, modelId, None)
    /\ UNCHANGED <<svcVars, uiVars, hoverVars, calls, served>>
    /\ UNCHANGED <<selectedFile, pageNumber, viewMode, chat, providerType, sends,
                   viewerVars, selectedModel, geminiApiKey, ollamaEndpoint, ollamaVars>>

\* The API key input, shown for the provider gemini.
SetApiKey(apiKey) ==
    /\ modal.isOpen
    /\ ~modal.isValidating
    /\ modal.providerType = "gemini"
    /\ modal' = [modal EXCEPT !.apiKey = apiKey]
    /\ last' = Did("typeApiKey", << >>, "", None)
    /\ UNCHANGED <<svcVars, uiVars, hoverVars, calls, served>>
    /\ UNCHANGED <<selectedFile, pageNumber, viewMode, chat, providerType, sends,
                   viewerVars, selectedModel, geminiApiKey, ollamaEndpoint, ollamaVars>>

\* The endpoint input, shown for the provider ollama.
SetOllamaEndpoint(e) ==
    /\ modal.isOpen
    /\ ~modal.isValidating
    /\ modal.providerType = "ollama"
    /\ modal' = [modal EXCEPT !.ollamaEndpoint = e]
    /\ last' = Did("typeEndpoint", << >>, "", None)
    /\ UNCHANGED <<svcVars, uiVars, hoverVars, calls, served>>
    /\ UNCHANGED <<selectedFile, pageNumber, viewMode, chat, providerType, sends,
                   viewerVars, selectedModel, geminiApiKey, ollamaEndpoint, ollamaVars>>

\* The message handleSave refuses the fields with before it validates them,
\* or null.
FieldError(m) ==
    IF m.providerType = "gemini" /\ Trim(m.apiKey) = << >>
    THEN Some("API key is required")
    ELSE IF m.providerType = "gemini" /\ ~StartsWithAIza(m.apiKey)
    THEN Some("Invalid API key format")
    ELSE IF m.providerType = "ollama" /\ Trim(m.ollamaEndpoint) = << >>
    THEN Some("Ollama endpoint is required")
    ELSE IF m.providerType = "ollama" /\ ~IsUrl(m.ollamaEndpoint)
    THEN Some("Invalid endpoint URL format")
    ELSE None

\* handleSave up to its await: the Save button is disabled while validating
\* and once saved.  The rest of the handler works on the fields it closed
\* over (saving).
HandleSave ==
    /\ modal.isOpen
    /\ ~modal.isValidating
    /\ ~modal.isSaved
    /\ IF FieldError(modal) # None
       THEN /\ modal' = [modal EXCEPT !.validationError = FieldError(modal)]
            /\ last' = Did("save", << >>, "refused", None)
       ELSE /\ modal' = [modal EXCEPT
                           !.isValidating = TRUE,
                           !.validationError = None,
                           !.saving = Some([providerType |-> modal.providerType,
                                            selectedModel |-> modal.selectedModel,
                                            apiKey |-> modal.apiKey,
                                            ollamaEndpoint |-> modal.ollamaEndpoint])]
            /\ last' = Did("save", << >>, "validating", None)
    /\ UNCHANGED <<svcVars, uiVars, hoverVars, calls, served>>
    /\ UNCHANGED <<selectedFile, pageNumber, viewMode, chat, providerType, sends,
                   viewerVars, selectedModel, geminiApiKey, ollamaEndpoint, ollamaVars>>

\* The settings the update calls of handleSave leave, one after the other on
\* the stored item: the key or the endpoint, then the model and the provider
\* in the order of the component.
SettingsSaved(version, saving) ==
    LET s1 == IF saving.providerType = "gemini"
              THEN WithGeminiApiKey(LoadSettings, Trim(saving.apiKey))
              ELSE WithOllamaEndpoint(LoadSettings, Trim(saving.ollamaEndpoint))
    IN  IF version = "modelFirst"
        THEN WithProviderType(WithSelectedModel(s1, saving.selectedModel),
                              saving.providerType)
        ELSE WithSelectedModel(WithProviderType(s1, saving.providerType),
                               saving.selectedModel)

\* validateApiKey or validateConnection has answered: the rest of handleSave.
ValidationSettles(isValid) ==
    /\ modal.saving # None
    /\ IF isValid
       THEN LET saved == SettingsSaved(modal.version, modal.saving[1])
            IN  /\ geminiApiKey' = Some(saved.geminiApiKey)
                /\ ollamaEndpoint' = Some(saved.ollamaEndpoint)
                /\ selectedModel' = Some(saved.selectedModel)
                /\ providerType' = Some(saved.providerType)
                /\ endpoint' = IF modal.saving[1].providerType = "ollama"
                               THEN Some(SetEndpoint(Trim(modal.saving[1].ollamaEndpoint)))
                               ELSE endpoint
                /\ modal' = [modal EXCEPT !.isSaved = TRUE, !.isValidating = FALSE,
                                          !.saving = None]
                /\ last' = Did("validated", << >>, "saved", None)
       ELSE /\ modal' = [modal EXCEPT
                           !.validationError = Some("Validation failed"),
                           !.isValidating = FALSE, !.saving = None]
            /\ last' = Did("validated", << >>, "invalid", None)
            /\ UNCHANGED <<geminiApiKey, ollamaEndpoint, selectedModel,
                           providerType, endpoint>>
    /\ UNCHANGED <<svcVars, uiVars, hoverVars, calls, served>>
    /\ UNCHANGED <<selectedFile, pageNumber, viewMode, chat, sends, viewerVars,
                   ollamaSends>>

\* handleClose, and the timeout of a successful save (onSave, onClose): the
\* modal is no longer rendered.
HandleClose ==
    /\ modal.isOpen
    /\ ~modal.isValidating
    /\ modal' = [modal EXCEPT !.isOpen = FALSE]
    /\ last' = Did("closeSettings", << >>, "", None)
    /\ UNCHANGED <<svcVars, uiVars, hoverVars, calls, served>>
    /\ UNCHANGED <<selectedFile, pageNumber, viewMode, chat, providerType, sends,
                   viewerVars, selectedModel, geminiApiKey, ollamaEndpoint, ollamaVars>>

NextSettings ==
    \/ \E files \in FileLists : HandleFileChange(files)
    \/ HandleClearFile
    \/ \E version \in SettingsModals : HandleOpenSettings(version)
    \/ \E newProvider \in {"gemini", "ollama"} : HandleProviderChange(newProvider)
    \/ \E i \in 1..Len(ALL_AVAILABLE_MODELS) : SetSelectedModel(ALL_AVAILABLE_MODELS[i].id)
    \/ \E apiKey \in ApiKeys : SetApiKey(apiKey)
    \/ \E e \in Endpoints : SetOllamaEndpoint(e)
    \/ HandleSave
    \/ \E isValid \in BOOLEAN : ValidationSettles(isValid)
    \/ HandleClose

SpecSettings == Init /\ [][NextSettings]_vars

\* ----------------------------------------------------- the Ollama service
\* An error message is the sequence of its parts; includes() is asked only
\* for texts that are whole parts.
Includes(message, text) == \E i \in 1..Len(message) : message[i] = text

\* What the server or the network answers a request with: the fetch is
\* rejected, the status is not ok, the body is not JSON, or the body is JSON
\* with the text (empty when the field is missing or empty).
Replies ==
    { [kind |-> "rejected", message |-> <<"Failed to fetch">>],
      [kind |-> "rejected", message |-> <<"NetworkError", " when attempting to fetch resource.">>],
      [kind |-> "status", message |-> <<"HTTP ", "404", ": ", "Not Found">>],
      [kind |-> "status", message |-> <<"HTTP ", "404", ": ">>],
      [kind |-> "status", message |-> <<"HTTP ", "500", ": ", "Internal Server Error">>],
      [kind |-> "status", message |-> <<"HTTP ", "400", ": ", "model", " x ", "not found">>],
      [kind |-> "badJson", message |-> << >>],
      [kind |-> "json", text |-> ""],
      [kind |-> "json", text |-> "answer"] }

\* sendGenerateMessage and sendChatMessage: the text returned, or the
\* message of the Error thrown.  A chat answer is marked as such.
SendGenerateMessage(reply) ==
    IF reply.kind = "json"
    THEN IF reply.text = ""
         THEN [ok |-> FALSE, message |-> <<"Empty response from Ollama API">>]
         ELSE [ok |-> TRUE, text |-> <<"generate", reply.text>>]
    ELSE [ok |-> FALSE, message |-> reply.message]

SendChatMessage(reply) ==
    IF reply.kind = "json"
    THEN IF reply.text = ""
         THEN [ok |-> FALSE, message |-> <<"Empty response from Ollama API">>]
         ELSE [ok |-> TRUE, text |-> <<"chat", reply.text>>]
    ELSE [ok |-> FALSE, message |-> reply.message]

\* A fallback test that every error passes.
IsAnyError(message) == TRUE

\* err.message?.includes('404') || err.message?.includes('Not Found')
IsNotFound(message) == Includes(message, "404") \/ Includes(message, "Not Found")

\* handleOllamaError: the OllamaError thrown for an error message.
HandleOllamaError(message) ==
    IF Includes(message, "model") /\ Includes(message, "not found")
    THEN [name |-> "OllamaError", type |-> "model_not_found",
          message |-> <<"Model not found. Please ensure the model is installed in Ollama.">>]
    ELSE IF Includes(message, "NetworkError") \/ Includes(message, "Failed to fetch")
    THEN [name |-> "OllamaError", type |-> "network_error",
          message |-> <<"Network error. Please check if Ollama is running and accessible.">>]
    ELSE [name |-> "OllamaError", type |-> "api_error",
          message |-> IF message # << >> THEN message
                      ELSE <<"Failed to get response from Ollama API">>]

\* ollamaService.setEndpoint(e)
OllamaSetEndpoint(e) ==
    /\ endpoint # Some(SetEndpoint(e))
    /\ endpoint' = Some(SetEndpoint(e))
    /\ last' = Did("setEndpoint", << >>, "", None)
    /\ UNCHANGED <<svcVars, uiVars, hoverVars, calls, served>>
    /\ UNCHANGED <<selectedFile, pageNumber, viewMode, chat, providerType, sends,
                   viewerVars, settingsVars, ollamaSends>>

\* A send is the record of a sendMessage call: the requests it has made, the
\* messages of the errors they failed with, and what the call settled with.
\* A settled send leaves ollamaSends and is what the step returns
\* (last.result).
\* ollamaService.sendMessage up to its first await: getEndpoint throws when
\* the endpoint is null or empty, else the generate request is made.
OllamaSendMessage ==
    /\ calls < MaxCalls
    /\ Cardinality(ollamaSends) < MaxInflight
    /\ calls' = calls + 1
    /\ IF endpoint = None \/ endpoint = Some(<< >>)
       THEN /\ UNCHANGED ollamaSends
            /\ last' = Did("ollamaSend", << >>, "no_endpoint",
                   Some([id |-> calls + 1, phase |-> "done", requests |-> << >>,
                         failed |-> << >>,
                         outcome |-> [ok |-> FALSE,
                                      err |-> [name |-> "OllamaError",
                                               type |-> "no_endpoint",
                                               message |-> <<"Ollama endpoint is not configured">>]]]))
       ELSE /\ ollamaSends' = ollamaSends \cup
                 {[id |-> calls + 1, phase |-> "generate",
                   requests |-> << <<endpoint[1], "/api/generate">> >>,
                   failed |-> << >>,
                   outcome |-> [ok |-> FALSE, err |-> << >>]]}
            /\ last' = Did("ollamaSend", << >>, "generate", None)
    /\ UNCHANGED <<svcVars, uiVars, hoverVars, served>>
    /\ UNCHANGED <<selectedFile, pageNumber, viewMode, chat, providerType, sends,
                   viewerVars, settingsVars, endpoint>>

\* The generate request of a send is answered: it returns the text, falls
\* back to the chat endpoint of the same server, or throws.
GenerateSettles(send, reply) ==
    /\ send \in ollamaSends
    /\ send.phase = "generate"
    /\ LET r == SendGenerateMessage(reply)
           after ==
               IF r.ok
               THEN [send EXCEPT !.phase = "done", !.outcome = r]
               ELSE IF IsNotFound(r.message)
               THEN [send EXCEPT
                       !.phase = "chat",
                       !.failed = Append(@, r.message),
                       !.requests = Append(@, <<send.requests[1][1], "/api/chat">>)]
               ELSE [send EXCEPT
                       !.phase = "done",
                       !.failed = Append(@, r.message),
                       !.outcome = [ok |-> FALSE,
                                    err |-> HandleOllamaError(r.message)]]
       IN  /\ ollamaSends' = (ollamaSends \ {send}) \cup
                 (IF after.phase = "done" THEN {} ELSE {after})
           /\ last' = Did("generateSettles", << >>,
                          IF r.ok THEN "ok"
                          ELSE IF IsNotFound(r.message) THEN "fallback" ELSE "error",
                          IF after.phase = "done" THEN Some(after) ELSE None)
    /\ UNCHANGED <<svcVars, uiVars, hoverVars, calls, served>>
    /\ UNCHANGED <<selectedFile, pageNumber, viewMode, chat, providerType, sends,
                   viewerVars, settingsVars, endpoint>>

\* The chat request of a send is answered.
ChatSettles(send, reply) ==
    /\ send \in ollamaSends
    /\ send.phase = "chat"
    /\ LET r == SendChatMessage(reply)
           after ==
               IF r.ok
               THEN [send EXCEPT !.phase = "done", !.outcome = r]
               ELSE [send EXCEPT
                       !.phase = "done",
                       !.failed = Append(@, r.message),
                       !.outcome = [ok |-> FALSE,
                                    err |-> HandleOllamaError(r.message)]]
       IN  /\ ollamaSends' = ollamaSends \ {send}
           /\ last' = Did("chatSettles", << >>, IF r.ok THEN "ok" ELSE "error",
                          Some(after))
    /\ UNCHANGED <<svcVars, uiVars, hoverVars, calls, served>>
    /\ UNCHANGED <<selectedFile, pageNumber, viewMode, chat, providerType, sends,
                   viewerVars, settingsVars, endpoint>>

NextOllama ==
    \/ \E e \in Endpoints : OllamaSetEndpoint(e)
    \/ OllamaSendMessage
    \/ \E send \in ollamaSends : \E reply \in Replies : GenerateSettles(send, reply)
    \/ \E send \in ollamaSends : \E reply \in Replies : ChatSettles(send, reply)

SpecOllama == Init /\ [][NextOllama]_vars

\* ================================================================ claims
\* v is least used in c: no entry has a smaller accessCount, and none with
\* the same accessCount has an older timestamp.
LeastUsed(c, k) ==
    \A i \in 1..Len(c) :
        \/ MapGet(c, k).accessCount < c[i].entry.accessCount
        \/ /\ MapGet(c, k).accessCount = c[i].entry.accessCount
           /\ MapGet(c, k).timestamp <= c[i].entry.timestamp

\* The snapshot in storage holds exactly the entries of the cache and its stats.
SnapshotMatches ==
    /\ storage # None
    /\ { <<storage[1].cache[i][1], storage[1].cache[i][2]>> :
            i \in 1..Len(storage[1].cache) }
       = { <<cache[i].key, cache[i].entry>> : i \in 1..Len(cache) }
    /\ Len(storage[1].cache) = Len(cache)
    /\ storage[1].stats = stats

\* C1: in every reachable state the cache holds at most maxEntries entries.
C1_CacheWithinMaxEntries == Len(cache) <= maxCacheSize

\* C2: inserting a new word into a cache that holds maxEntries (or more)
\* entries removes exactly one entry, a least-used one (minimum accessCount,
\* then oldest timestamp), whatever the cached keys are; inserting into a
\* cache below maxEntries removes nothing.
C2_InsertEvictsLeastUsed ==
    [][ (/\ last'.op = "complete"
         /\ last'.kind = "entries"
         /\ ~MapHas(cache, NormalizeWord(last'.word)))
        => IF Len(cache) >= maxCacheSize
           THEN \E victim \in MapKeys(cache) :
                    /\ LeastUsed(cache, victim)
                    /\ MapKeys(cache') =
                          (MapKeys(cache) \ {victim}) \cup {NormalizeWord(last'.word)}
           ELSE MapKeys(cache') = MapKeys(cache) \cup {NormalizeWord(last'.word)}
      ]_vars

\* C3: a lookup of a word whose cached entry is older than ttl is a miss that
\* removes the entry and issues a fetch, returning nothing from the cache; a
\* hit leaves the creation timestamp alone and serves an entry of age <= ttl.
C3_ExpiredEntryNeverServed ==
    [][ \A word \in ServiceWords :
          (/\ last'.op = "lookup"
           /\ last'.word = word
           /\ MapHas(cache, NormalizeWord(word)))
          => IF now - MapGet(cache, NormalizeWord(word)).timestamp > cacheExpirationMs
             THEN /\ last'.result = None
                  /\ ~MapHas(cache', NormalizeWord(word))
                  /\ stats'.misses = stats.misses + 1
                  /\ stats'.hits = stats.hits
                  /\ inflight' = inflight (+) SetToBag({word})
             ELSE /\ last'.kind = "hit"
                  /\ MapGet(cache', NormalizeWord(word)).timestamp
                        = MapGet(cache, NormalizeWord(word)).timestamp
                  /\ now - MapGet(cache', NormalizeWord(word)).timestamp <= cacheExpirationMs
      ]_vars

\* An expired entry has just been looked up: it is gone and its fetch is out.
C3_Witness ==
    /\ last.op = "lookup"
    /\ last.kind = "expired"
    /\ ~MapHas(cache, NormalizeWord(last.word))
    /\ BagIn(last.word, inflight)

\* C4: once a lookup of a word has returned a definition, a later lookup of
\* it that finds the entry cached and unexpired returns that same definition,
\* adds exactly 1 to the entry's accessCount and to stats.hits, and issues no
\* fetch.
C4_RepeatedLookupIsHit ==
    [][ \A word \in ServiceWords :
          (/\ last'.op = "lookup"
           /\ last'.word = word
           /\ MapHas(cache, NormalizeWord(word))
           /\ now - MapGet(cache, NormalizeWord(word)).timestamp <= cacheExpirationMs)
          => /\ served[NormalizeWord(word)] # None
             /\ last'.result = served[NormalizeWord(word)]
             /\ MapGet(cache', NormalizeWord(word)).accessCount
                   = MapGet(cache, NormalizeWord(word)).accessCount + 1
             /\ MapGet(cache', NormalizeWord(word)).value = served[NormalizeWord(word)][1]
             /\ stats'.hits = stats.hits + 1
             /\ stats'.misses = stats.misses
             /\ inflight' = inflight
      ]_vars

\* A lookup was served from the cache for the second time at least.
C4_Witness ==
    /\ last.op = "lookup"
    /\ last.kind = "hit"
    /\ last.result = served[NormalizeWord(last.word)]
    /\ MapGet(cache, NormalizeWord(last.word)).accessCount >= 2
    /\ stats.hits >= 1

\* C8: a non-success status or an empty array resolves the lookup to null
\* and creates no cache entry (cache, stats and snapshot stay as they were,
\* the one miss having been counted when the lookup started); a lookup of a
\* word that has no entry counts one miss and issues a new fetch.
C8_NotFoundIsNotCached ==
    [][ /\ (last'.op = "complete" /\ last'.kind \in {"notOk", "empty"})
           => /\ last'.result = None
              /\ cache' = cache
              /\ stats' = stats
              /\ storage' = storage
        /\ \A word \in ServiceWords :
             (last'.op = "lookup" /\ last'.word = word /\ ~MapHas(cache, NormalizeWord(word)))
             => /\ stats'.misses = stats.misses + 1
                /\ stats'.hits = stats.hits
                /\ inflight' = inflight (+) SetToBag({word})
                /\ cache' = cache
      ]_vars

\* A word whose fetch has just resolved to null is looked up again and is
\* fetched again.
C8_Witness ==
    /\ last.op = "lookup"
    /\ last.after = "null"
    /\ last.kind = "miss"
    /\ BagIn(last.word, inflight)
    /\ stats.misses >= 2

\* C10: after every hit and every insert the snapshot in storage equals the
\* cache and stats in memory; a cold start with a snapshot rebuilds the cache
\* with the words, definitions, timestamps and accessCounts of the snapshot
\* and its stats; the lookup of a rebuilt, unexpired word right after the
\* start is a hit without a fetch.
C10_SnapshotRoundTrip ==
    [][ /\ ((last'.op = "lookup" /\ last'.kind = "hit")
              \/ (last'.op = "complete" /\ last'.kind = "entries"))
           => SnapshotMatches'
        /\ (last'.op = "start" /\ storage # None)
           => /\ { <<cache'[i].key, cache'[i].entry>> : i \in 1..Len(cache') }
                 = { <<storage[1].cache[i][1], storage[1].cache[i][2]>> :
                        i \in 1..Len(storage[1].cache) }
              /\ Len(cache') = Len(storage[1].cache)
              /\ stats' = storage[1].stats
        /\ \A word \in ServiceWords :
             (/\ last.op = "start"
              /\ last'.op = "lookup"
              /\ last'.word = word
              /\ storage # None
              /\ \E i \in 1..Len(storage[1].cache) :
                    /\ storage[1].cache[i][1] = NormalizeWord(word)
                    /\ now - storage[1].cache[i][2].timestamp <= cacheExpirationMs)
             => /\ last'.kind = "hit"
                /\ inflight' = inflight
      ]_vars

\* Right after a cold start that found a snapshot, a word of it was served
\* from the cache.
C10_Witness ==
    /\ last.op = "lookup"
    /\ last.after = "start"
    /\ last.kind = "hit"
    /\ SnapshotMatches
    /\ MapGet(cache, NormalizeWord(last.word)).accessCount >= 2

\* C5: the answer of a fetch for a word that is no longer the latest
\* requested word leaves the shown definition, loading and error alone.
C5_StaleAnswerIgnored ==
    [][ (last'.op = "complete" /\ effectWord # Some(last'.word)) => dict' = dict ]_vars

\* C9: after a transport error the hook's error is 'Failed to fetch
\* definition', which is not the error of a not-found answer.
C9_TransportErrorDistinguishable ==
    (last.op = "complete" /\ last.kind = "throw")
    => /\ dict.definition = None
       /\ dict.error = Some("Failed to fetch definition")
       /\ dict.error # Some("Word not found")

\* C6: whenever the latest pointer sample lies on a text run for which no
\* word has been resolved, exactly one resolution is pending, it is due one
\* debounce delay after that sample, and it will resolve that sample.
C6_LastSampleOfBurstResolved ==
    (lastSample # None /\ lastSample[1].unresolved)
    => \E tm \in timers :
          /\ timers = {tm}
          /\ tm.event = lastSample[1].event
          /\ tm.due = lastSample[1].at + DebounceTicks

\* C7: when the pointer leaves, the hovered word is null at once, no debounce
\* timer stays pending, the remembered run and word are cleared, and the
\* sample that follows, on whichever run, schedules its own resolution.
C7_LeaveClearsEverything ==
    [][ /\ last'.op = "leave"
           => /\ hoveredWord' = None
              /\ timers' = {}
              /\ debounceTimeoutRef' = None
              /\ currentElementRef' = None
              /\ currentWordRef' = None
              /\ clock' = clock
        /\ (last.op = "leave" /\ last'.op = "move")
           => /\ last'.kind = "scheduled"
              /\ \E tm \in timers' :
                    /\ timers' = {tm}
                    /\ tm.event = lastSample'[1].event
                    /\ tm.due = clock + DebounceTicks
      ]_vars

\* The pointer left while a word was hovered and a resolution was pending.
C7_Witness ==
    /\ last.op = "leave"
    /\ last.kind = "cancelled"
    /\ last.result # None
    /\ hoveredWord = None
    /\ timers = {}

\* The x position of a sample lies outside its text run: the offset from the
\* run's left edge is below 0 or above the run's width.
OutsideRun(event) ==
    /\ event.target # None
    /\ \/ event.clientX - TextRuns[event.target[1]].left < 0
       \/ event.clientX - TextRuns[event.target[1]].left
             > TextRuns[event.target[1]].width

\* C13: a resolution of a sample whose x offset lies outside [0, runWidth]
\* gives null, for a run of several tokens and for a run of one token.
C13_OutsideRunResolvesToNull ==
    [][ \A tm \in timers :
          (/\ last'.op = "fire"
           /\ timers' = timers \ {tm}
           /\ OutsideRun(tm.event))
          => /\ last'.kind = "null"
             /\ hoveredWord' = None
      ]_vars

\* C17: a pointer sample is ignored (no timer cancelled or scheduled, hovered
\* word unchanged) exactly when its run is the run of the previous sample and
\* the word held was resolved for that run; a sample on a run without a
\* resolved word is never ignored.
C17_CheapPathIffWordOfSameRun ==
    [][ last'.op = "move"
        => /\ (last'.kind = "ignored")
              <=> (/\ lastSample'[1].event.target = currentElementRef
                   /\ currentWordRef # None
                   /\ wordElement = lastSample'[1].event.target)
           /\ last'.kind = "ignored"
              => (timers' = timers /\ hoveredWord' = hoveredWord)
           /\ lastSample'[1].unresolved => last'.kind # "ignored"
      ]_vars

\* C18: at most one debounce timer is pending, and it is the one the timer
\* slot names: a sample that schedules a resolution has cancelled the timer
\* pending before it, so the only callback that can run is the latest one.
C18_SingleSlotTimer ==
    /\ Cardinality(timers) <= 1
    /\ \A tm \in timers : debounceTimeoutRef = Some(tm.id)
    /\ last.op = "fire" => timers = {}

\* A sample has cancelled the pending timer of an earlier sample and
\* scheduled its own.
C18_Witness ==
    /\ last.op = "move"
    /\ last.kind = "rescheduled"
    /\ \E tm \in timers :
          /\ timers = {tm}
          /\ tm.id = nextTimerId - 1
          /\ tm.id >= 2

\* C14: a lookup of a word of fewer than 2 characters (once normalized)
\* issues no fetch, enters no loading state, shows no definition and leaves
\* the cache, its counters and the snapshot alone.
C14_ShortWordNeverFetched ==
    [][ \A word \in RawWords :
          (/\ last'.op \in {"lookup", "reject"}
           /\ last'.word = word
           /\ Len(NormalizeWord(word)) < 2)
          => /\ inflight' = inflight
             /\ dict'.loading = FALSE
             /\ dict'.definition = None
             /\ cache' = cache
             /\ stats' = stats
             /\ storage' = storage
      ]_vars

\* The entries of a cache as a set of <<key, entry>> pairs.
EntriesOf(c) == { <<c[i].key, c[i].entry>> : i \in 1..Len(c) }

\* C20: a sweep leaves exactly the entries of age <= ttl, each unchanged,
\* sets stats.entries to the new size, leaves hits and misses and the fetches
\* in flight alone, and if it removed an entry the snapshot equals the swept
\* cache; a fetch answered with an entry, whether or not a sweep ran while it
\* was in flight, inserts its entry and persists it.
C20_SweepRemovesExactlyExpired ==
    [][ /\ last'.op = "sweep"
           => /\ EntriesOf(cache')
                    = { p \in EntriesOf(cache) : now - p[2].timestamp <= cacheExpirationMs }
              /\ Len(cache') = Cardinality(EntriesOf(cache'))
              /\ stats'.entries = Len(cache')
              /\ stats'.hits = stats.hits
              /\ stats'.misses = stats.misses
              /\ inflight' = inflight
              /\ Len(cache') < Len(cache) => SnapshotMatches'
        /\ (last'.op = "complete" /\ last'.kind = "entries")
           => /\ MapHas(cache', NormalizeWord(last'.word))
              /\ MapGet(cache', NormalizeWord(last'.word))
                    = [value |-> last'.result[1], timestamp |-> now, accessCount |-> 1]
              /\ SnapshotMatches'
      ]_vars

\* A sweep has just removed an expired entry while a fetch was in flight.
C20_Witness ==
    /\ last.op = "sweep"
    /\ last.kind = "removed"
    /\ inflight # EmptyBag
    /\ SnapshotMatches
    /\ stats.entries = Len(cache)

\* C11: while the storage refuses writes, a hit and an insert still return
\* their result and update the cache and counters in memory, the snapshot
\* stays as it was, and a cached word keeps being served as a hit; the first
\* hit or insert after the storage accepts writes again leaves a snapshot
\* equal to the whole cache and its stats.
C11_PersistFailureIsNotFatal ==
    [][ /\ \A word \in QuotaWords :
             (/\ last'.op = "lookup"
              /\ last'.word = word
              /\ MapHas(cache, NormalizeWord(word))
              /\ now - MapGet(cache, NormalizeWord(word)).timestamp <= cacheExpirationMs)
             => /\ last'.kind = "hit"
                /\ last'.result = Some(MapGet(cache, NormalizeWord(word)).value)
                /\ MapGet(cache', NormalizeWord(word)).accessCount
                      = MapGet(cache, NormalizeWord(word)).accessCount + 1
                /\ stats'.hits = stats.hits + 1
        /\ (last'.op = "complete" /\ last'.kind = "entries")
           => /\ last'.result # None
              /\ MapHas(cache', NormalizeWord(last'.word))
              /\ MapGet(cache', NormalizeWord(last'.word)).value = last'.result[1]
              /\ stats'.entries = Len(cache')
        /\ ((last'.op = "lookup" /\ last'.kind = "hit")
              \/ (last'.op = "complete" /\ last'.kind = "entries"))
           => IF storageFull THEN storage' = storage ELSE SnapshotMatches'
      ]_vars

\* The storage refused the write of an insert, accepted writes again, and the
\* hit that followed wrote the whole cache, the entry of the failed write
\* included.
C11_Witness ==
    /\ last.op = "lookup"
    /\ last.kind = "hit"
    /\ last.after = "stale"
    /\ ~storageFull
    /\ SnapshotMatches
    /\ Len(cache) >= 1

\* An item the service can use: a snapshot it wrote itself, or the text of an
\* object whose cache part is an object of entries and whose stats part is an
\* object with the three counters.
UsableItem(stored) ==
    /\ stored # None
    /\ \/ "text" \notin DOMAIN stored[1]
       \/ /\ stored[1].text = "object"
          /\ stored[1].cache.type = "object"
          /\ stored[1].stats.type = "object"
          /\ Len(stored[1].stats.entries) = 3

\* C12: a cold start that finds the key missing or its content malformed
\* (not parsable, or without a usable cache part or stats part) starts with
\* an empty cache and hits, misses and entries all zero.
C12_MalformedStorageStartsEmpty ==
    [][ (last'.op = "start" /\ ~UsableItem(storage))
        => /\ cache' = << >>
           /\ stats' = EmptyStats
      ]_vars

\* C15: a non-blank send appends the user message first and calls exactly
\* one provider, the one the persisted providerType names at that moment; a
\* successful call appends exactly one assistant message; a failed call
\* appends nothing, keeps the messages, and sets a non-empty error; either
\* way isLoading ends false; a blank send changes nothing and calls nobody.
C15_SendRoutedToPersistedProvider ==
    [][ /\ (last'.op = "send" /\ last'.kind = "blank")
           => (chat' = chat /\ sends' = sends)
        /\ (last'.op = "send" /\ last'.kind # "blank")
           => /\ Len(chat'.messages) = Len(chat.messages) + 1
              /\ chat'.messages[Len(chat'.messages)].role = "user"
              /\ chat'.messages[Len(chat'.messages)].content = last'.word
              /\ Cardinality(sends' \ sends) = 1
              /\ sends \subseteq sends'
              /\ \A s \in sends' \ sends : s.provider = GetProviderType
        /\ (last'.op = "settle" /\ last'.kind = "ok")
           => /\ Len(chat'.messages) = Len(chat.messages) + 1
              /\ chat'.messages[Len(chat'.messages)].role = "assistant"
              /\ ~chat'.isLoading
        /\ (last'.op = "settle" /\ last'.kind # "ok")
           => /\ chat'.messages = chat.messages
              /\ chat'.error # None
              /\ chat'.error # Some("")
              /\ ~chat'.isLoading
      ]_vars

\* C19: every displayed highlight overlay was computed for the word that is
\* hovered now; with no hovered word, or no viewer, none is displayed.
C19_OverlaysOfHoveredWordOnly ==
    \A o \in overlays : effectWord # None /\ o.word = effectWord[1]

\* C16: the header is shown in every state; the upload area exactly while no
\* file is selected and the viewer exactly while one is; only a file of type
\* application/pdf leads from the upload area to the viewer, and 'Select New
\* File' leads back.
C16_UploadOrViewer ==
    [][ /\ "DocPeak PDF Viewer" \in Rendered(selectedFile) \cap Rendered(selectedFile')
        /\ ("FileUploader" \in Rendered(selectedFile)) = (selectedFile = None)
        /\ ("FileUploader" \in Rendered(selectedFile')) = (selectedFile' = None)
        /\ ("PDFViewer" \in Rendered(selectedFile)) = (selectedFile # None)
        /\ ("PDFViewer" \in Rendered(selectedFile')) = (selectedFile' # None)
        /\ (selectedFile = None /\ selectedFile' # None)
           => /\ last'.op \in {"fileChange", "drop"}
              /\ last'.kind = "application/pdf"
        /\ (last'.op \in {"fileChange", "drop"})
           => (selectedFile' # None) = (last'.kind = "application/pdf")
        /\ (last'.op = "clearFile") => (selectedFile # None /\ selectedFile' = None)
      ]_vars

C16_Witness ==
    /\ selectedFile # None
    /\ last.op = "drop"
    /\ last.kind = "application/pdf"

\* The index of the last character of the token of text that starts at i.
RECURSIVE TokenEnd(_, _)
TokenEnd(text, i) ==
    IF i < Len(text) /\ ~IsWhitespace(text[i + 1]) THEN TokenEnd(text, i + 1) ELSE i

\* The tokens of text, by the index of their first character, whose
\* horizontal span contains the offset x; every character is one unit wide,
\* so the widths before the token that starts at i add up to i - 1.
TokensAt(text, x) ==
    { i \in 1..Len(text) :
        /\ ~IsWhitespace(text[i])
        /\ (i = 1 \/ IsWhitespace(text[i - 1]))
        /\ i - 1 <= x
        /\ x <= TokenEnd(text, i) }

\* The box of the token of a run that starts at i.
TokenBox(run, i) ==
    [x |-> run.left + (i - 1), y |-> run.top,
     width |-> TokenEnd(run.text, i) - i + 1, height |-> run.height]

\* A token of letters only, at least two of them.
PlainWord(token) == Len(token) >= 2 /\ \A k \in 1..Len(token) : IsLetter(token[k])

\* C21: in a run of several tokens the resolution of a sample takes the token
\* whose span (the widths before it, plus its own width) contains the
\* pointer's offset, and gives that token's box; an offset in no token's
\* span, as inside a whitespace separator, gives null; a pointer over the
\* first token of "Hello, world" gives "hello" at the left edge of the run.
C21_TokenUnderPointer ==
    [][ \A tm \in timers :
          (/\ last'.op = "fire"
           /\ timers' = timers \ {tm}
           /\ tm.event.target # None
           /\ Len(SplitOnWhitespace(TextRuns[tm.event.target[1]].text)) > 1)
          => LET run == TextRuns[tm.event.target[1]]
                 at == TokensAt(run.text, tm.event.clientX - run.left)
             IN  IF at = {}
                 THEN last'.kind = "null" /\ hoveredWord' = None
                 ELSE LET i == CHOOSE k \in at : TRUE
                          token == SubSeq(run.text, i, TokenEnd(run.text, i))
                      IN  /\ PlainWord(token) => last'.kind = "word"
                          /\ last'.kind = "word"
                             => /\ currentWordRef' = Some(CleanWord(token))
                                /\ hoveredWord' # None
                                /\ hoveredWord'[1].word = CleanWord(token)
                                /\ (hoveredWord = None \/ hoveredWord[1].word # CleanWord(token))
                                   => hoveredWord'[1] =
                                        [word |-> CleanWord(token)] @@ TokenBox(run, i)
                          /\ (tm.event.target = Some("e4") /\ i = 1)
                             => /\ last'.kind = "word"
                                /\ hoveredWord'[1].word = <<"h", "e", "l", "l", "o">>
                                /\ hoveredWord'[1].x = run.left
      ]_vars

C21_Witness ==
    /\ last.op = "fire"
    /\ hoveredWord = Some([word |-> <<"w", "o", "r", "l", "d">>,
                           x |-> 47, y |-> 2, width |-> 5, height |-> 1])

\* A token without the punctuation at its two ends.
RECURSIVE StripSurroundingPunctuation(_)
StripSurroundingPunctuation(token) ==
    IF token # << >> /\ IsCommonPunctuation(Head(token))
    THEN StripSurroundingPunctuation(Tail(token))
    ELSE IF token # << >> /\ IsCommonPunctuation(token[Len(token)])
    THEN StripSurroundingPunctuation(SubSeq(token, 1, Len(token) - 1))
    ELSE token

\* The candidate token of a sample: the only token of a one-token run, the
\* token under the pointer in a run of several (none: no candidate).
Candidate(event) ==
    LET run == TextRuns[event.target[1]]
        at == TokensAt(run.text, event.clientX - run.left)
    IN  IF Len(SplitOnWhitespace(run.text)) = 1 THEN Some(run.text)
        ELSE IF at = {} THEN None
        ELSE Some(SubSeq(run.text, CHOOSE k \in at : TRUE,
                         TokenEnd(run.text, CHOOSE k \in at : TRUE)))

\* C22: a word is emitted for a candidate token exactly when the token
\* without its surrounding punctuation is made of ASCII letters only, at
\* least two of them; the emitted word is the token in lower case without its
\* non-alphanumeric characters.
C22_WordIffPlainToken ==
    [][ \A tm \in timers :
          (/\ last'.op = "fire"
           /\ timers' = timers \ {tm}
           /\ tm.event.target # None
           /\ Candidate(tm.event) # None)
          => LET token == Candidate(tm.event)[1]
             IN  /\ (last'.kind = "word")
                       = PlainWord(StripSurroundingPunctuation(token))
                 /\ last'.kind = "word"
                    => currentWordRef' = Some(ToLowerCase(SelectSeq(token,
                          LAMBDA ch : IsLetter(ch) \/ ch \in {"0", "1", "2", "3", "4",
                                                              "5", "6", "7", "8", "9"})))
      ]_vars

\* The normalization of the highlight geometry: the alphanumeric characters
\* of a text, in lower case.
AlphanumericLowerCase(text) ==
    ToLowerCase(SelectSeq(text, LAMBDA ch : IsLetter(ch) \/ ch \in {"0", "1", "2", "3", "4",
                                                                    "5", "6", "7", "8", "9"}))

\* The overlays a run of a page is due for the word w: one for each token
\* that equals w after normalization, at the token's share of the run's box.
OverlaysDue(page, run, w) ==
    LET text == TextRuns[run].text
    IN  { [page |-> page, run |-> run, token |-> i, word |-> w,
           left |-> TextRuns[run].left + (TextRuns[run].width * (i - 1)) \div Len(text),
           top |-> TextRuns[run].top,
           width |-> (TextRuns[run].width * (TokenEnd(text, i) - i + 1)) \div Len(text),
           height |-> TextRuns[run].height] :
            i \in { k \in 1..Len(text) :
                      /\ ~IsWhitespace(text[k])
                      /\ (k = 1 \/ IsWhitespace(text[k - 1]))
                      /\ AlphanumericLowerCase(SubSeq(text, k, TokenEnd(text, k)))
                           = AlphanumericLowerCase(w)
                      /\ AlphanumericLowerCase(w) # << >> } }

\* C23: when the overlays of a hovered word are computed, every run rendered
\* on a page gets one overlay for each of its tokens that equals the word
\* after normalization and none for anything else, each at the token's share
\* of the run's bounding box.
C23_OverlayPerOccurrence ==
    [][ last'.op = "highlight"
        => \A page \in RenderedPages(selectedFile, viewMode, pageNumber) :
             \A run \in PageRuns(page) :
               { [o EXCEPT !.token = 0] :
                   o \in { q \in overlays' : q.word = last'.word
                                              /\ q.page = page /\ q.run = run } }
                 = { [o EXCEPT !.token = 0] : o \in OverlaysDue(page, run, last'.word) }
      ]_vars

\* The definition an entry is due: its first three non-empty definition texts
\* across its meanings in order, the part of speech of its first meaning that
\* has one, and its first phonetics text that is present.
DefinitionDue(k, entry) ==
    [word |-> k,
     definitions |->
        Slice(SelectSeq(Concat([i \in 1..Len(entry.meanings) |->
                                  entry.meanings[i].definitions]),
                        LAMBDA d : d # ""), 3),
     phonetics |-> FirstNonEmpty(entry.phonetics),
     partOfSpeech |-> FirstNonEmpty([i \in 1..Len(entry.meanings) |->
                                       entry.meanings[i].partOfSpeech])]

\* C24: a fetch answered with an entry resolves to at most three definition
\* texts, the first three non-empty ones of the entry across all its meanings
\* in order, with the part of speech of the first meaning that has one and
\* the first phonetics text present.
C24_FirstThreeDefinitions ==
    [][ \A word \in ServiceWords :
          (last'.op = "complete" /\ last'.kind = "entries" /\ last'.word = word)
          => /\ last'.result # None
             /\ Len(last'.result[1].definitions) <= 3
             /\ last'.result[1] \in { DefinitionDue(NormalizeWord(word), e) :
                                        e \in ApiEntries(word) }
      ]_vars

\* C25: every lookup adds one to exactly one of hits and misses, to hits if
\* and only if it is served from the cache; clearCache and a start with
\* nothing stored set both to zero, and no other step, a start from a stored
\* snapshot included, changes either, so that hits + misses counts the lookups
\* started since the last clearCache or empty start; the hit rate is
\* hits / (hits + misses), and 0 before the first lookup.
C25_CountersCountLookups ==
    [][ /\ last'.op = "lookup"
           => /\ last'.kind = "hit" <=> last'.result # None
              /\ IF last'.kind = "hit"
                 THEN stats'.hits = stats.hits + 1 /\ stats'.misses = stats.misses
                 ELSE stats'.misses = stats.misses + 1 /\ stats'.hits = stats.hits
        /\ (last'.op = "clearCache" \/ (last'.op = "start" /\ last'.kind = "empty"))
           => stats'.hits = 0 /\ stats'.misses = 0
        /\ (last'.op \in {"complete", "sweep", "tick"}
              \/ (last'.op = "start" /\ last'.kind = "rehydrated"))
           => stats'.hits = stats.hits /\ stats'.misses = stats.misses
        /\ GetHitRate(stats') =
             IF stats'.hits + stats'.misses = 0 THEN <<0, 1>>
             ELSE <<stats'.hits, stats'.hits + stats'.misses>>
      ]_vars

\* The part of C25 about one running service: between two starts of the page
\* the counters count the lookups.
C25_WithinOneSession ==
    [][ /\ last'.op = "lookup"
           => IF last'.kind = "hit"
              THEN stats'.hits = stats.hits + 1 /\ stats'.misses = stats.misses
              ELSE stats'.misses = stats.misses + 1 /\ stats'.hits = stats.hits
        /\ last'.op \in {"clearCache"} => stats'.hits = 0 /\ stats'.misses = 0
        /\ last'.op \in {"complete", "sweep", "tick"}
           => stats'.hits = stats.hits /\ stats'.misses = stats.misses
      ]_vars

\* C26: when the fetch of a word succeeds while the cache already holds the
\* entry of an overlapping lookup of the same word, the cache afterwards holds
\* exactly one entry of the word and every entry of every other word is still
\* there, also when the cache is full.
C26_OverlappingLookupsEvictNothing ==
    [][ \A word \in ServiceWords :
          LET k == NormalizeWord(word)
          IN  (/\ last'.op = "complete" /\ last'.kind = "entries"
               /\ last'.word = word
               /\ MapHas(cache, k))
              => /\ Cardinality({i \in 1..Len(cache') : cache'[i].key = k}) = 1
                 /\ \A i \in 1..Len(cache) :
                       cache[i].key # k => MapHas(cache', cache[i].key)
      ]_vars

\* C27: in every state stats.entries is the number of entries of the cache,
\* and the snapshot in storage, when there is one, has stats.entries equal to
\* the number of words of its cache part.
C27_EntriesIsCacheSize ==
    /\ stats.entries = Len(cache)
    /\ stats.entries = Cardinality(MapKeys(cache))
    /\ storage # None
       => storage[1].stats.entries =
            Cardinality({ storage[1].cache[i][1] : i \in 1..Len(storage[1].cache) })

\* A lookup has just dropped an expired entry after an earlier hit: the cache
\* is smaller than the snapshot, which still holds the entry.
C27_Witness ==
    /\ last.op = "lookup"
    /\ last.kind = "expired"
    /\ stats.hits >= 1
    /\ storage # None
    /\ Len(storage[1].cache) > Len(cache)
    /\ stats.entries = Len(cache)

\* C30: after every step of a viewer whose document has loaded with at least
\* one page, the current page is between 1 and numPages, and it is 1 right
\* after a document finishes loading; after every step the zoom factor is
\* between 0.5 and 3.0.
C30_PageAndZoomWithinLimits ==
    [][ /\ (selectedFile' # None /\ numPages' >= 1)
           => (1 <= pageNumber' /\ pageNumber' <= numPages')
        /\ last'.op = "documentLoad" => (pageNumber' = 1 /\ numPages' >= 1)
        /\ last'.op \in {"previousPage", "nextPage"}
           => (pageNumber' - pageNumber \in {-1, 1} /\ numPages' = numPages)
        /\ (MinScale <= scale' /\ scale' <= MaxScale)
        /\ last'.op = "resetZoom" => scale' = One
      ]_vars

\* Zooming in at the largest factor on the last page of the single-page view
\* has left both where they were.
C30_Witness ==
    /\ last.op = "zoomIn"
    /\ scale = MaxScale
    /\ viewMode = "single"
    /\ numPages = MaxPages
    /\ pageNumber = numPages
    /\ pageNumber > 1

\* The model is one the settings offer for the provider.
OfferedFor(provider, modelId) ==
    \E i \in 1..Len(GetAvailableModelsForProvider(provider)) :
        GetAvailableModelsForProvider(provider)[i].id = modelId

\* C28: when a save of the settings modal has passed validation, the stored
\* selectedModel is the model selected in the modal and the stored
\* providerType is the provider selected there, for every provider and every
\* model offered for it.
C28_SaveKeepsSelectedModel ==
    [][ (/\ last'.op = "validated" /\ last'.kind = "saved"
         /\ modal.saving # None
         /\ OfferedFor(modal.saving[1].providerType, modal.saving[1].selectedModel))
        => /\ selectedModel' = Some(modal.saving[1].selectedModel)
           /\ providerType' = Some(modal.saving[1].providerType)
      ]_vars

\* The part of C28 that the modal saving the provider first satisfies.
C28_ProviderFirstKeepsModel ==
    [][ (/\ last'.op = "validated" /\ last'.kind = "saved"
         /\ modal.saving # None
         /\ modal.version = "providerFirst")
        => /\ OfferedFor(modal.saving[1].providerType, modal.saving[1].selectedModel)
           /\ selectedModel' = Some(modal.saving[1].selectedModel)
           /\ providerType' = Some(modal.saving[1].providerType)
      ]_vars

\* The names of the endpoints a send has requested, in order.
RequestedOf(send) == [i \in 1..Len(send.requests) |-> send.requests[i][2]]

\* The sends in flight and the send that has just settled.
SendsSeen ==
    ollamaSends \cup
    (IF last.op \in {"ollamaSend", "generateSettles", "chatSettles"} /\ last.result # None
     THEN {last.result[1]} ELSE {})

====
